---- MODULE Spec2Model ----
(***************************************************************************)
(* A state-machine model of src/web/js/ataqv.js: the sample selection      *)
(* state (legendItemState), the d3 dispatch channels legendChange,         *)
(* plotItemInspect and sampleInspect, the five plot views with their       *)
(* legends and detail panels, the debounced resize and the staged initial  *)
(* population.                                                             *)
(***************************************************************************)
EXTENDS Integers, Sequences, FiniteSets, TLC

(***************************************************************************)
(* Bounds of the model.                                                    *)
(***************************************************************************)
\* how many times configure + initialize may be called in one behaviour of SpecReload
MaxLoads == 2
\* how many animation-frame callbacks may be queued at once
MaxRaf == 1
\* milliseconds that pass in one Tick
TickMs == 500
\* the translation of a viewport stays within -MaxPan..MaxPan
MaxPan == 1
\* ms between two resize events of a burst
BurstGap == 250
\* entries of a histogram or of a percentile array, and the values they hold
MaxBins == 4
MaxFraction == 2
\* the values of the .resolution select
MaxResolution == 3
\* click listeners counted on one .reset button; the count is held at this
\* number once it is reached
MaxListeners == 2
\* fragment_length_distance runs over the tens from -10 * MaxDistance to
\* 10 * (MaxDistance + 1)
MaxDistance == 2

(***************************************************************************)
(* Program constants.                                                      *)
(***************************************************************************)
\* debounce(populatePlots, 500)
ResizeWait == 500
\* scaleExtent([1, 40]) of the scatter plot, scaleExtent([1, 2]) of the line plots
MinScale == 1
ScatterMaxScale == 40
LineMaxScale == 2
\* the points of a percentile curve
Percentiles == 100

Scatter == "fragmentLengthDistancePlot"
FragLen == "fragmentLengthPlot"
Mapq == "mapqPlot"
PeakReads == "peakReadCountsPlot"
PeakTerr == "peakTerritoryPlot"

\* the order in which populatePlots renders the plots
ChartOrder == << Scatter, FragLen, Mapq, PeakReads, PeakTerr >>
Charts == {ChartOrder[i] : i \in 1..Len(ChartOrder)}
\* one chart of each kind: makeFragmentLengthDistancePlot and makeLinePlot
Operated == {Scatter, FragLen}

\* the value of `this` in a handler called with dispatch.call(type, null)
Null == "null"

(***************************************************************************)
(* Metrics datasets.  An experiment has id, name, sample; sample "" is an  *)
(* absent library.sample.  metrics lists the experiments in the insertion  *)
(* order of the keys of configuration.metrics; reference tells whether     *)
(* configuration.fragment_length_reference is present.                     *)
(***************************************************************************)
\* added holds the properties the page has added to the experiment since
\* configure
Experiment(id, sample) == [id |-> id, name |-> id, sample |-> sample, added |-> {}]

\* experiment IDs in the order of Array.prototype.sort (lexicographic)
IdOrder == << "e1", "e2", "e3" >>

Unconfigured == [metrics |-> << >>, reference |-> FALSE]

DsSingle == [metrics |-> << Experiment("e1", "A") >>, reference |-> TRUE]
DsShared ==
    [metrics |-> << Experiment("e2", "A"), Experiment("e1", "A"), Experiment("e3", "B") >>,
     reference |-> TRUE]
DsNoSample ==
    [metrics |-> << Experiment("e1", ""), Experiment("e2", "B") >>, reference |-> TRUE]
DsSpace == [metrics |-> << Experiment("e1", "rep 1") >>, reference |-> TRUE]
DsNoReference == [metrics |-> << Experiment("e1", "A") >>, reference |-> FALSE]

Datasets == {DsSingle, DsShared, DsNoSample, DsSpace, DsNoReference}
ReloadDatasets == {DsSingle, DsNoSample}
HoverDatasets == {DsShared, DsNoReference}

\* experiment.library.sample || experiment.name
SampleOf(x) == IF x.sample # "" THEN x.sample ELSE x.name

Ids(cfg) == {cfg.metrics[i].id : i \in 1..Len(cfg.metrics)}
Samples(cfg) == {SampleOf(cfg.metrics[i]) : i \in 1..Len(cfg.metrics)}
\* configuration.metrics[experimentID], for an experimentID of the dataset
Metrics(cfg, id) == cfg.metrics[CHOOSE i \in 1..Len(cfg.metrics) : cfg.metrics[i].id = id]
\* variant: the keys in the order of Object.keys, which is the order they
\* were inserted in
KeysAsInserted(cfg) == [i \in 1..Len(cfg.metrics) |-> cfg.metrics[i].id]

\* Object.keys(configuration.metrics).sort()
SortedIds(cfg) == SelectSeq(IdOrder, LAMBDA id : id \in Ids(cfg))

\* Whether '.plotItem[data-sample=' + sample + ']' is a selector that
\* querySelectorAll accepts: the unquoted attribute value has to be a CSS
\* identifier, and a sample name with a space in it is none.
NonIdentifiers == {"rep 1"}
SelectorParses(sample) == sample \notin NonIdentifiers

(***************************************************************************)
(* The Map legendItemState: a sequence of [key, value] in insertion order. *)
(***************************************************************************)
MapKeys(m) == {m[i].key : i \in 1..Len(m)}
\* Map.prototype.get: the set holding the value, empty for undefined
MapGet(m, k) == {m[i].value : i \in {j \in 1..Len(m) : m[j].key = k}}
Truthy(got) == TRUE \in got
\* Map.prototype.set: an existing key keeps its place, a new one is appended
MapSet(m, k, v) ==
    IF k \in MapKeys(m)
    THEN [i \in 1..Len(m) |-> IF m[i].key = k THEN [key |-> k, value |-> v] ELSE m[i]]
    ELSE Append(m, [key |-> k, value |-> v])

VARIABLES
    configuration,    \* the configured dataset
    legendItemState,  \* the Map sample -> selected
    dom,              \* per chart: plot items, legend items, detail panel
    closures,         \* per chart: what the latest render bound
    loads,            \* one entry per initialize: the pending stage of loadExperiments
    debouncers,       \* one entry per initialize: timeout and elapsed time of debounce
    raf,              \* queued requestAnimationFrame callbacks
    referenceToggle,  \* whether the .referenceToggle checkbox is checked
    quiet,            \* ms since the latest resize event, held at ResizeWait
    data,             \* a call of provideData: the plot, what it read, what it returned
    status,           \* the text of #message, which setStatus and clearStatus write
    turn              \* the event-loop turn that ran last: its handler and what it did

vars == << configuration, legendItemState, dom, closures, loads, debouncers, raf, referenceToggle,
          quiet, data, status, turn >>

Help == [kind |-> "help", id |-> ""]
Event(ev, arg) == [ev |-> ev, arg |-> arg]
\* before is legendItemState as selectLegendItem found it, << >> in any other
\* turn; target is the chart whose legend a mouseover is on, "" in any other turn
Turn(op, events) ==
    [op |-> op, events |-> events, before |-> << >>, again |-> FALSE, target |-> ""]

NoItems == [e \in {} |-> [sample |-> "", hidden |-> FALSE, highlight |-> FALSE, unhighlight |-> FALSE]]
NoLegend == [s \in {} |-> FALSE]
NoSamples == [s \in {} |-> << >>]

\* d3.zoomIdentity; resetting is set while the transition of reset runs
ZoomIdentity == [k |-> 1, x |-> 0, resetting |-> FALSE]
\* a chart before its first render
EmptyPlot ==
    [items |-> NoItems, legend |-> NoLegend, detail |-> Help, zoom |-> ZoomIdentity,
     reference |-> "none"]


(***************************************************************************)
(* Rendering.  A plot item is a dot of the scatter plot or a line of a     *)
(* line plot; the reference curve of the fragment length plot is no plot   *)
(* item (its class is 'line reference').                                   *)
(***************************************************************************)
\* the class and data attributes the render gives the plot items: 'hidden'
\* when legendItemState.get(sample) is falsy
DrawItems(cfg, lis) ==
    [e \in Ids(cfg) |->
        [sample |-> SampleOf(Metrics(cfg, e)),
         hidden |-> ~Truthy(MapGet(lis, SampleOf(Metrics(cfg, e)))),
         highlight |-> FALSE,
         unhighlight |-> FALSE]]

\* the legend items of a render: 'targetHidden' when the entry is falsy
DrawLegend(cfg, lis) == [s \in Samples(cfg) |-> ~Truthy(MapGet(lis, s))]

\* the Map samples a render builds: sample -> its libraries, in sorted order
SampleGroups(cfg) ==
    [s \in Samples(cfg) |->
        SelectSeq(SortedIds(cfg), LAMBDA id : SampleOf(Metrics(cfg, id)) = s)]

\* provideData of the fragment length plot reads
\* configuration.fragment_length_reference.source and throws a TypeError
\* when the reference is absent; no other render throws on a dataset.
RenderThrows(c, cfg) == c = FragLen /\ ~cfg.reference

\* variant: a render that draws the reference curve without reading the
\* reference toggle
RenderDomShowsReference(c, cfg, lis, checked) ==
    IF RenderThrows(c, cfg)
    THEN EmptyPlot
    ELSE [items |-> DrawItems(cfg, lis),
          legend |-> DrawLegend(cfg, lis),
          detail |-> Help,
          zoom |-> ZoomIdentity,
          reference |-> IF c # FragLen THEN "none" ELSE "shown"]

\* The function plots[c] returns: one render of chart c, with a new svg and
\* a new zoom behaviour.  A render that throws has emptied the plot, the
\* legend and the detail panel and leaves the bindings of the render before it.
RenderDom(c, cfg, lis, checked) ==
    IF RenderThrows(c, cfg)
    THEN EmptyPlot
    ELSE [items |-> DrawItems(cfg, lis),
          legend |-> DrawLegend(cfg, lis),
          detail |-> Help,
          zoom |-> ZoomIdentity,
          reference |-> IF c # FragLen THEN "none" ELSE IF checked THEN "shown" ELSE "hidden"]

\* what a render binds listeners to: the legend (click, mouseover and
\* mouseout), the plot items, and the three buttons of the container
Bindings == {"legend", "items", "hideall", "showall", "reset"}

\* the listeners on binding b of chart c after one more render, n before it.
\* The legend and the plot items are new elements; the buttons outlive the
\* render, d3's selection.on('click', ...) replaces the listener it set
\* before, and the scatter plot adds its reset with addEventListener.
Listeners(c, b, n) ==
    IF c = Scatter /\ b = "reset"
    THEN (IF n + 1 > MaxListeners THEN MaxListeners ELSE n + 1)
    ELSE 1

RenderClosure(c, cfg, k) ==
    IF RenderThrows(c, cfg)
    THEN k
    ELSE [subscribed |-> TRUE, experimentIDs |-> SortedIds(cfg), samples |-> SampleGroups(cfg),
          listeners |-> [b \in Bindings |-> Listeners(c, b, k.listeners[b])]]

Index(c) == CHOOSE i \in 1..Len(ChartOrder) : ChartOrder[i] = c

\* the index in cs of the first render that throws, Len(cs) + 1 when none does
FirstThrow(cs, cfg) ==
    LET bad == {i \in 1..Len(cs) : RenderThrows(cs[i], cfg)}
    IN IF bad = {} THEN Len(cs) + 1 ELSE CHOOSE i \in bad : \A j \in bad : i <= j

\* the charts of cs whose render is entered, in order, when they are
\* rendered one after the other in one call
Entered(cs, cfg) == SubSeq(cs, 1, IF FirstThrow(cs, cfg) > Len(cs) THEN Len(cs) ELSE FirstThrow(cs, cfg))

InSeq(x, s) == \E i \in 1..Len(s) : s[i] = x

\* variant: renders that call the zoom behaviour on the svg with the
\* transform of the svg they replace
RenderAllDomKeepsZoom(cs, cfg, lis, checked, d) ==
    [c \in Charts |->
        IF InSeq(c, Entered(cs, cfg))
        THEN [RenderDom(c, cfg, lis, checked) EXCEPT !.zoom = d[c].zoom]
        ELSE d[c]]

\* variant: renders that leave the text of the detail panel
RenderAllDomKeepsDetail(cs, cfg, lis, checked, d) ==
    [c \in Charts |->
        IF InSeq(c, Entered(cs, cfg))
        THEN [RenderDom(c, cfg, lis, checked) EXCEPT !.detail = d[c].detail]
        ELSE d[c]]

RenderAllDom(cs, cfg, lis, checked, d) ==
    [c \in Charts |-> IF InSeq(c, Entered(cs, cfg)) THEN RenderDom(c, cfg, lis, checked) ELSE d[c]]

RenderAllClosures(cs, cfg, k) ==
    [c \in Charts |-> IF InSeq(c, Entered(cs, cfg)) THEN RenderClosure(c, cfg, k[c]) ELSE k[c]]

\* each render entered runs the chart's data transform once
RenderEvents(cs, cfg) ==
    [i \in 1..Len(Entered(cs, cfg)) |-> Event("transform", Entered(cs, cfg)[i])]

\* populatePlots: the five plots in order; a throw ends the call
populatePlotsDom(cfg, lis, checked, d) == RenderAllDom(ChartOrder, cfg, lis, checked, d)
populatePlotsClosures(cfg, k) == RenderAllClosures(ChartOrder, cfg, k)
populatePlotsEvents(cfg) == RenderEvents(ChartOrder, cfg)
populatePlotsThrows(cfg) == FirstThrow(ChartOrder, cfg) <= Len(ChartOrder)

(***************************************************************************)
(* Selection state.                                                        *)
(***************************************************************************)
\* changeSampleVisibility: for each entry in insertion order, set 'hidden'
\* on the plot items and 'targetHidden' on the legend items of the sample,
\* in the whole document.  The first entry whose selector does not parse
\* throws and ends the loop.
VisitedKeys(lis) ==
    LET bad == {i \in 1..Len(lis) : ~SelectorParses(lis[i].key)}
        stop == IF bad = {} THEN Len(lis) + 1 ELSE CHOOSE i \in bad : \A j \in bad : i <= j
    IN {lis[i].key : i \in 1..(stop - 1)}

changeSampleVisibility(lis, d) ==
    [c \in Charts |->
        LET items == d[c].items
            legend == d[c].legend
        IN [d[c] EXCEPT
              !.items = [e \in DOMAIN items |->
                  IF items[e].sample \in VisitedKeys(lis)
                  THEN [items[e] EXCEPT !.hidden = ~Truthy(MapGet(lis, items[e].sample))]
                  ELSE items[e]],
              !.legend = [s \in DOMAIN legend |->
                  IF s \in VisitedKeys(lis) THEN ~Truthy(MapGet(lis, s)) ELSE legend[s]]]]

\* variants of the toggle that only select, or only hide
ToggleEntrySelectsOnly(lis, sample) == MapSet(lis, sample, TRUE)
ToggleEntryHidesOnly(lis, sample) == MapSet(lis, sample, FALSE)

\* the toggle of selectLegendItem
ToggleEntry(lis, sample) ==
    IF Truthy(MapGet(lis, sample)) THEN MapSet(lis, sample, FALSE) ELSE MapSet(lis, sample, TRUE)

\* a variant of the loop below that stops one key short
RECURSIVE SetAllSkipsLast(_, _, _)
SetAllSkipsLast(lis, i, v) ==
    IF i >= Len(lis) THEN lis ELSE SetAllSkipsLast(MapSet(lis, lis[i].key, v), i + 1, v)

\* the loop of deselectAllLegendItems / selectAllLegendItems over the keys
RECURSIVE SetAll(_, _, _)
SetAll(lis, i, v) ==
    IF i > Len(lis) THEN lis ELSE SetAll(MapSet(lis, lis[i].key, v), i + 1, v)

SetEvents(lis) == [i \in 1..Len(lis) |-> Event("set", lis[i].key)]

\* a variant of the loop below that keys every entry by library.sample,
\* without the fallback to the name of the experiment
RECURSIVE InitEntriesNoFallback(_, _, _)
InitEntriesNoFallback(lis, cfg, i) ==
    IF i > Len(cfg.metrics)
    THEN lis
    ELSE InitEntriesNoFallback(MapSet(lis, cfg.metrics[i].sample, TRUE), cfg, i + 1)

\* the loop of initialize over the experiments in insertion order
RECURSIVE InitEntries(_, _, _)
InitEntries(lis, cfg, i) ==
    IF i > Len(cfg.metrics)
    THEN lis
    ELSE InitEntries(MapSet(lis, SampleOf(cfg.metrics[i]), TRUE), cfg, i + 1)


(***************************************************************************)
(* Hover.  Every render subscribes its chart's handlers under the names    *)
(* plotItemInspect.<containerID> and sampleInspect.<containerID>; each     *)
(* handler marks the plot items of the whole document and writes its own   *)
(* chart's detail panel.  The handlers of a channel are run here in the    *)
(* order of populatePlots: they differ only in the Map samples of their    *)
(* render, so their order shows only when two charts were rendered from    *)
(* two different configurations.                                           *)
(***************************************************************************)
\* the detail text of an experiment: its id and what the handler looks up in
\* configuration.metrics (library.sample || name)
ItemDetail(id, cfg) == [kind |-> "item", id |-> id, sample |-> SampleOf(Metrics(cfg, id))]
SampleDetail(sample) == [kind |-> "sample", id |-> sample]

\* a variant of ClearMarks that removes 'unhighlight' only
ClearMarksKeepsHighlight(d) ==
    [c \in Charts |->
        [d[c] EXCEPT !.items = [e \in DOMAIN @ |-> [@[e] EXCEPT !.unhighlight = FALSE]]]]

ClearMarks(d) ==
    [c \in Charts |->
        [d[c] EXCEPT !.items =
            [e \in DOMAIN @ |-> [@[e] EXCEPT !.unhighlight = FALSE, !.highlight = FALSE]]]]

\* a variant of plotItemInspect that leaves 'highlight' where it finds it
plotItemInspectKeepsHighlight(c, id, cfg, d) ==
    IF id \in Ids(cfg)
    THEN [x \in Charts |->
            [d[x] EXCEPT
                !.items = [e \in DOMAIN @ |->
                    [@[e] EXCEPT !.unhighlight = TRUE, !.highlight = (@ \/ e = id)]],
                !.detail = IF x = c THEN ItemDetail(id, cfg) ELSE @]]
    ELSE [ClearMarks(d) EXCEPT ![c].detail = Help]

\* the handler chart c subscribed to plotItemInspect, called with this = id
plotItemInspect(c, id, cfg, d) ==
    IF id \in Ids(cfg)
    THEN [x \in Charts |->
            [d[x] EXCEPT
                !.items = [e \in DOMAIN @ |->
                    [@[e] EXCEPT !.unhighlight = TRUE, !.highlight = (e = id)]],
                !.detail = IF x = c THEN ItemDetail(id, cfg) ELSE @]]
    ELSE [ClearMarks(d) EXCEPT ![c].detail = Help]

\* the handler chart c subscribed to sampleInspect, called with this = sample;
\* samples is the Map of the render that subscribed it
sampleInspect(c, sample, samples, d) ==
    IF sample \in DOMAIN samples
    THEN [x \in Charts |->
            [d[x] EXCEPT
                !.items = [e \in DOMAIN @ |->
                    [@[e] EXCEPT !.unhighlight = TRUE,
                                 !.highlight = (@ \/ d[x].items[e].sample = sample)]],
                !.detail = IF x = c THEN SampleDetail(sample) ELSE @]]
    ELSE [ClearMarks(d) EXCEPT ![c].detail = Help]

\* dispatch.call('plotItemInspect', id): the subscribed handlers, one by one
RECURSIVE CallItemInspect(_, _, _, _, _)
CallItemInspect(i, id, cfg, k, d) ==
    IF i > Len(ChartOrder)
    THEN d
    ELSE CallItemInspect(i + 1, id, cfg, k,
            IF k[ChartOrder[i]].subscribed THEN plotItemInspect(ChartOrder[i], id, cfg, d) ELSE d)

\* dispatch.call('sampleInspect', sample)
RECURSIVE CallSampleInspect(_, _, _, _)
CallSampleInspect(i, sample, k, d) ==
    IF i > Len(ChartOrder)
    THEN d
    ELSE CallSampleInspect(i + 1, sample, k,
            IF k[ChartOrder[i]].subscribed
            THEN sampleInspect(ChartOrder[i], sample, k[ChartOrder[i]].samples, d)
            ELSE d)

(***************************************************************************)
(* debounce(func, wait): timeout is the time left on the pending timer     *)
(* (-1 for null), elapsed is Date.now() - last, held at wait + 1 once it   *)
(* is above wait (last is null at first, and now - null is now).           *)
(***************************************************************************)
\* timers counts the timers the debouncer has set that have neither fired
\* nor been cleared
NewDebouncer == [timeout |-> -1, elapsed |-> ResizeWait + 1, timers |-> 0]

\* variant: a debounce that starts its timer again on every call
DebouncedRestarts(b) ==
    [timeout |-> ResizeWait, elapsed |-> 0,
     timers |-> (IF b.timeout # -1 THEN b.timers - 1 ELSE b.timers) + 1]

\* the function debounce returns, called on a resize event: clearTimeout of
\* the pending timer, if any, then setTimeout
Debounced(b) ==
    IF b.timeout = -1 \/ b.elapsed > ResizeWait
    THEN [timeout |-> ResizeWait, elapsed |-> 0,
          timers |-> (IF b.timeout # -1 THEN b.timers - 1 ELSE b.timers) + 1]
    ELSE b

\* ms milliseconds later
Elapse(b, ms) ==
    [timeout |-> IF b.timeout > ms THEN b.timeout - ms
                 ELSE IF b.timeout >= 0 THEN 0 ELSE -1,
     elapsed |-> IF b.elapsed + ms > ResizeWait THEN ResizeWait + 1 ELSE b.elapsed + ms,
     timers |-> b.timers]

(***************************************************************************)
(* The data transforms (provideData).  A histogram is the sequence of the  *)
(* values fragment_length_counts[fl][1], entry fl at index fl + 1; a mean  *)
(* sum / resolution is kept as the pair of its numerator and denominator.  *)
(***************************************************************************)
Ratio(n, d) == [num |-> n, den |-> d]
RatioEq(a, b) == a.num * b.den = b.num * a.den

\* an optional part of the dataset: absent, or present with its value
Absent == << >>
Present(x) == << x >>
Thrown == [throws |-> TRUE]

\* d3.min of the numbers of entries
MinLength(metrics) ==
    CHOOSE n \in {Len(metrics[e]) : e \in DOMAIN metrics} :
        \A e \in DOMAIN metrics : n <= Len(metrics[e])

\* one pass of the body of the loop over fl of provideData, for one histogram
\* f: sum holds what was added since the last point, line the points pushed
ResampleStep(f, r, st, fl) ==
    LET sum == st.sum + f[fl + 1]
    IN IF fl % r = 0
       THEN [sum |-> 0, line |-> Append(st.line, [x |-> fl, y |-> Ratio(sum, r)])]
       ELSE [sum |-> sum, line |-> st.line]

\* the values the loop's variables take
Points(Y) == Seq([x : Nat, y : Y])
Ratios == [num : Nat, den : Nat]

\* let sum = 0; for (let fl = 0; fl < M; fl++) { ... }: Passes[lo, hi, st]
\* are the passes fl = lo, ..., hi - 1, in this order, from state st
Resample(f, M, r) ==
    LET Passes[lo \in 0..M, hi \in 0..M, st \in [sum : Nat, line : Points(Ratios)]] ==
            IF hi <= lo THEN st
            ELSE IF hi = lo + 1 THEN ResampleStep(f, r, st, lo)
            ELSE Passes[(lo + hi) \div 2, hi, Passes[lo, (lo + hi) \div 2, st]]
    IN Passes[0, M, [sum |-> 0, line |-> << >>]].line

\* a variant of the transform in which every histogram is resampled over all
\* of its entries
plotFragmentLengthWhole(metrics, reference, r) ==
    LET M == MinLength(metrics)
    IN IF Len(reference) = 0 \/ Len(reference[1]) < M
       THEN Thrown
       ELSE [throws |-> FALSE,
             series |-> [e \in DOMAIN metrics |-> Resample(metrics[e], Len(metrics[e]), r)],
             reference_series |-> Resample(reference[1], M, r),
             xMax |-> M]

\* a variant of the transform in which the reference distribution is
\* resampled over all of its entries
plotFragmentLengthReferenceWhole(metrics, reference, r) ==
    LET M == MinLength(metrics)
    IN IF Len(reference) = 0 \/ Len(reference[1]) < M
       THEN Thrown
       ELSE [throws |-> FALSE,
             series |-> [e \in DOMAIN metrics |-> Resample(metrics[e], M, r)],
             reference_series |-> Resample(reference[1], Len(reference[1]), r),
             xMax |-> M]

\* provideData of plotFragmentLength for resolution r; reference is the
\* optional fragment_length_reference.distribution
\* throws a TypeError when the reference is absent (.source of undefined) or
\* has fewer than M entries (distribution[fl][1] of undefined)
plotFragmentLength(metrics, reference, r) ==
    LET M == MinLength(metrics)
    IN IF Len(reference) = 0 \/ Len(reference[1]) < M
       THEN Thrown
       ELSE [throws |-> FALSE,
             series |-> [e \in DOMAIN metrics |-> Resample(metrics[e], M, r)],
             reference_series |-> Resample(reference[1], M, r),
             xMax |-> M]

\* one pass of the body of the loop over percentile of the two peak plots,
\* for one array p: cum is the value carried forward
PercentileStepZero(p, st, percentile) ==
    LET c == IF percentile < Len(p) THEN p[percentile + 1] ELSE 0
    IN [cum |-> c, line |-> Append(st.line, [x |-> percentile + 1, y |-> c])]

PercentileStep(p, st, percentile) ==
    LET c == IF percentile < Len(p) THEN p[percentile + 1] ELSE st.cum
    IN [cum |-> c, line |-> Append(st.line, [x |-> percentile + 1, y |-> c])]

\* new Array(100).fill(0), for an experiment without peak_percentiles
Zeros == [i \in 1..Percentiles |-> 0]

\* the line of one experiment in provideData of plotPeakReadCounts and of
\* plotPeakTerritory, which differ in the array they read
PercentileCurve(p) ==
    LET percentiles == IF Len(p) = 0 THEN Zeros ELSE p[1]
        Passes[lo \in 0..Percentiles, hi \in 0..Percentiles, st \in [cum : Nat, line : Points(Nat)]] ==
            IF hi <= lo THEN st
            ELSE IF hi = lo + 1 THEN PercentileStep(percentiles, st, lo)
            ELSE Passes[(lo + hi) \div 2, hi, Passes[lo, (lo + hi) \div 2, st]]
    IN Passes[0, Percentiles, [cum |-> 0, line |-> << >>]].line

\* provideData of plotPeakReadCounts and of plotPeakTerritory, for one
\* experiment with or without peak_percentiles
plotPeakReadCounts(pp) ==
    [line |-> PercentileCurve(IF Len(pp) = 0 THEN Absent ELSE Present(pp[1].hqaa)),
     xMax |-> Percentiles]

plotPeakTerritory(pp) ==
    [line |-> PercentileCurve(IF Len(pp) = 0 THEN Absent ELSE Present(pp[1].territory)),
     xMax |-> Percentiles]

\* The datasets the transforms are run on.
Hists == UNION {[1..k -> 0..MaxFraction] : k \in 1..MaxBins}
LongA == [i \in 1..150 |-> 1]
LongB == [i \in 1..120 |-> 2]
Forty == [i \in 1..40 |-> i]

MetricsSets ==
    {("e1" :> h) : h \in Hists \cup {<< 2, 4, 6, 8 >>}}
    \cup {("e1" :> h) @@ ("e2" :> g) : h \in Hists, g \in {<< 1, 2, 1 >>, << 1, 0, 2, 1, 2 >>}}
    \cup {("e1" :> LongA) @@ ("e2" :> LongB)}

References == {Absent, Present(<< 1, 2 >>), Present([i \in 1..200 |-> i % 3])}

FragmentLengthInputs ==
    {[kind |-> "fragment_length", metrics |-> m, reference |-> ref, resolution |-> r] :
        m \in MetricsSets, ref \in References, r \in 1..MaxResolution}

PercentileArrays == {<< >>, Forty} \cup Hists

PeakInputs ==
    {[kind |-> "peak", peak_percentiles |-> pp] :
        pp \in {Absent} \cup {Present([hqaa |-> a, territory |-> t]) :
                                  a \in PercentileArrays, t \in {<< >>, << 1, 2 >>, Forty}}}

(***************************************************************************)
(* The transforms over a whole dataset.  metrics maps each experimentID to *)
(* the fields of the experiment the plots read; the experiments are        *)
(* visited in the order of Object.keys(configuration.metrics).sort().      *)
(***************************************************************************)
SortedKeys(metrics) == SelectSeq(IdOrder, LAMBDA id : id \in DOMAIN metrics)

\* experiment.library.library || experiment.name; library "" is an absent
\* library.library, and "" in a series is the value undefined
LibraryOf(x) == IF x.library # "" THEN x.library ELSE x.name

RatioLess(a, b) == a.num * b.den < b.num * a.den
\* d3.max of a set of numbers that is not empty
RatioMax(S) == CHOOSE a \in S : \A b \in S : ~RatioLess(a, b)
IntMax(S) == CHOOSE a \in S : \A b \in S : b <= a
IntMin(S) == CHOOSE a \in S : \A b \in S : a <= b
Abs(n) == IF n < 0 THEN -n ELSE n

Ys(line) == {line[i].y : i \in 1..Len(line)}

\* the array of peak_percentiles that plot c reads
PeakCurve(c, pp) == IF c = PeakReads THEN plotPeakReadCounts(pp).line ELSE plotPeakTerritory(pp).line

\* a variant of the loop below in which an experiment without
\* peak_percentiles gets the curve of the experiment before it
RECURSIVE PeakExperimentsKeepsArray(_, _, _, _)
PeakExperimentsKeepsArray(c, metrics, ids, result) ==
    IF Len(ids) = 0
    THEN result
    ELSE LET e == Head(ids)
             done == SelectSeq(SortedKeys(metrics), LAMBDA i : i \in DOMAIN result.series)
             line == IF Len(metrics[e].peak_percentiles) = 0 /\ Len(done) > 0
                     THEN result.series[done[Len(done)]].line
                     ELSE PeakCurve(c, metrics[e].peak_percentiles)
         IN PeakExperimentsKeepsArray(c, metrics, Tail(ids),
                [result EXCEPT
                    !.series = @ @@ (e :> [library |-> metrics[e].library,
                                           sample |-> SampleOf(metrics[e]), line |-> line]),
                    !.yMax = IntMax(Ys(line) \cup {@})])

\* the loop over the experiments of provideData of plotPeakReadCounts and of
\* plotPeakTerritory: result.series[experimentID] and result.yMax
RECURSIVE PeakExperiments(_, _, _, _)
PeakExperiments(c, metrics, ids, result) ==
    IF Len(ids) = 0
    THEN result
    ELSE LET e == Head(ids)
             line == PeakCurve(c, metrics[e].peak_percentiles)
         IN PeakExperiments(c, metrics, Tail(ids),
                [result EXCEPT
                    !.series = @ @@ (e :> [library |-> metrics[e].library,
                                           sample |-> SampleOf(metrics[e]), line |-> line]),
                    !.yMax = IntMax(Ys(line) \cup {@})])

\* provideData of the two peak plots on a dataset
NoSeries == [e \in {} |-> << >>]
providePeakData(c, metrics) ==
    PeakExperiments(c, metrics, SortedKeys(metrics),
                    [throws |-> FALSE, series |-> NoSeries, xMax |-> Percentiles, yMax |-> 0])

\* provideData of plotMapq: one point per entry [quality, count] of
\* mapq_counts, the count divided by total_reads
MapqLine(experiment) ==
    [i \in 1..Len(experiment.mapq_counts) |->
        [x |-> experiment.mapq_counts[i][1],
         y |-> Ratio(experiment.mapq_counts[i][2], experiment.total_reads)]]

plotMapq(metrics) ==
    LET lines == [e \in DOMAIN metrics |-> MapqLine(metrics[e])]
    IN [throws |-> FALSE,
        series |-> [e \in DOMAIN metrics |->
                       [library |-> metrics[e].library, sample |-> SampleOf(metrics[e]), line |-> lines[e]]],
        xMax |-> IntMax({0} \cup UNION {{lines[e][i].x : i \in 1..Len(lines[e])} : e \in DOMAIN metrics}),
        yMax |-> RatioMax({Ratio(0, 1)} \cup UNION {Ys(lines[e]) : e \in DOMAIN metrics})]

\* variant: result.yMax is raised by the means of the experiments only
provideFragmentLengthDataSeriesMax(metrics, reference, r) ==
    LET result == plotFragmentLength([e \in DOMAIN metrics |-> metrics[e].fragment_length_counts],
                                     reference, r)
    IN IF result.throws
       THEN Thrown
       ELSE [throws |-> FALSE,
             series |-> [e \in DOMAIN metrics |->
                            [library |-> LibraryOf(metrics[e]), sample |-> SampleOf(metrics[e]),
                             line |-> result.series[e]]],
             reference_series |-> result.reference_series,
             xMax |-> result.xMax,
             yMax |-> RatioMax({Ratio(0, 1)} \cup UNION {Ys(result.series[e]) : e \in DOMAIN metrics})]

\* provideData of plotFragmentLength on a dataset, with result.yMax
provideFragmentLengthData(metrics, reference, r) ==
    LET result == plotFragmentLength([e \in DOMAIN metrics |-> metrics[e].fragment_length_counts],
                                     reference, r)
    IN IF result.throws
       THEN Thrown
       ELSE [throws |-> FALSE,
             series |-> [e \in DOMAIN metrics |->
                            [library |-> LibraryOf(metrics[e]), sample |-> SampleOf(metrics[e]),
                             line |-> result.series[e]]],
             reference_series |-> result.reference_series,
             xMax |-> result.xMax,
             yMax |-> RatioMax({Ratio(0, 1)} \cup Ys(result.reference_series)
                               \cup UNION {Ys(result.series[e]) : e \in DOMAIN metrics})]

\* provideData of line plot c
provideData(c, input) ==
    IF c = FragLen THEN provideFragmentLengthData(input.metrics, input.reference, input.resolution)
    ELSE IF c = Mapq THEN plotMapq(input.metrics)
    ELSE providePeakData(c, input.metrics)

(***************************************************************************)
(* The scatter plot of a dataset.                                          *)
(***************************************************************************)
RatioAdd(a, b) == Ratio(a.num * b.den + b.num * a.den, a.den * b.den)
RatioSub(a, b) == Ratio(a.num * b.den - b.num * a.den, a.den * b.den)
RatioMul(a, b) == Ratio(a.num * b.num, a.den * b.den)

\* getYValue
getYValue(experiment, yAxisSource) ==
    IF yAxisSource = "short_mononucleosomal_ratio"
    THEN Ratio(experiment[yAxisSource], 1)
    ELSE IF yAxisSource = "duplicate_autosomal_reads"
    THEN Ratio(100 * experiment[yAxisSource], experiment.total_autosomal_reads)
    ELSE Ratio(100 * experiment[yAxisSource], experiment.total_reads)

makeLibrary(metrics, experimentID, yAxisSource) ==
    [experimentID |-> experimentID,
     library |-> LibraryOf(metrics[experimentID]),
     sample |-> SampleOf(metrics[experimentID]),
     x |-> metrics[experimentID].fragment_length_distance,
     y |-> getYValue(metrics[experimentID], yAxisSource)]

\* Array.prototype.reduce with +, from 0
RECURSIVE RatioSum(_)
RatioSum(q) == IF Len(q) = 0 THEN Ratio(0, 1) ELSE RatioAdd(RatioSum(SubSeq(q, 1, Len(q) - 1)), q[Len(q)])

\* a variant of the aggregates whose deviation is the one of a sample of a
\* population: the squares are divided by N - 1
SampleAggregatesOfSample(libraries) ==
    LET N == Len(libraries)
        xs == [i \in 1..N |-> Ratio(libraries[i].x, 1)]
        meanDistance == RatioMul(RatioSum(xs), Ratio(1, N))
        squaresOfDifferences ==
            [i \in 1..N |-> RatioMul(RatioSub(xs[i], meanDistance), RatioSub(xs[i], meanDistance))]
    IN [libraries |-> libraries,
        minDistance |-> IntMin({libraries[i].x : i \in 1..N}),
        maxDistance |-> IntMax({libraries[i].x : i \in 1..N}),
        meanDistance |-> meanDistance,
        squareOfStandardDeviation |-> RatioMul(RatioSum(squaresOfDifferences), Ratio(1, N - 1))]

\* the aggregates of one sample: distanceStandardDeviation is the square
\* root of meanSquareOfDifferences, which is what is kept here
SampleAggregates(libraries) ==
    LET N == Len(libraries)
        xs == [i \in 1..N |-> Ratio(libraries[i].x, 1)]
        meanDistance == RatioMul(RatioSum(xs), Ratio(1, N))
        squaresOfDifferences ==
            [i \in 1..N |-> RatioMul(RatioSub(xs[i], meanDistance), RatioSub(xs[i], meanDistance))]
    IN [libraries |-> libraries,
        minDistance |-> IntMin({libraries[i].x : i \in 1..N}),
        maxDistance |-> IntMax({libraries[i].x : i \in 1..N}),
        meanDistance |-> meanDistance,
        squareOfStandardDeviation |-> RatioMul(RatioSum(squaresOfDifferences), Ratio(1, N))]

\* a variant of the x domain that starts at 0 whatever the data
ScatterXDomainFromZero(libraries) ==
    LET xs == {libraries[i].x : i \in 1..Len(libraries)}
        limit == Ratio(105 * IntMax({Abs(IntMin(xs)), Abs(IntMax(xs))}), 100)
    IN << Ratio(0, 1), limit >>

\* xScale.domain: limit is the larger absolute value times 1.05
ScatterXDomain(libraries) ==
    LET xs == {libraries[i].x : i \in 1..Len(libraries)}
        limit == Ratio(105 * IntMax({Abs(IntMin(xs)), Abs(IntMax(xs))}), 100)
    IN IF IntMin(xs) < 0
       THEN << Ratio(-1 * limit.num, limit.den), limit >>
       ELSE << Ratio(0, 1), limit >>

\* yScale.domain([0, d3.max(data, yValue) + 10])
ScatterYDomain(libraries) ==
    << Ratio(0, 1),
       RatioAdd(RatioMax({libraries[i].y : i \in 1..Len(libraries)}), Ratio(10, 1)) >>

\* data and samples of a render of the scatter plot
ScatterData(input) ==
    [i \in 1..Len(SortedKeys(input.metrics)) |->
        makeLibrary(input.metrics, SortedKeys(input.metrics)[i], input.yaxis)]

ScatterSamples(libraries) ==
    [s \in {libraries[i].sample : i \in 1..Len(libraries)} |->
        SampleAggregates(SelectSeq(libraries, LAMBDA l : l.sample = s))]

(***************************************************************************)
(* A render of a dataset: the PlotDataset, the domains of the two scales   *)
(* and the plot items, one for each series.  input holds the dataset, the  *)
(* values of the chart's controls and legendItemState.                     *)
(***************************************************************************)
\* a variant of the plot items that leaves out those of the samples whose
\* entry is falsy
PlotItemsVisibleOnly(sampleOf, lis) ==
    [e \in {x \in DOMAIN sampleOf : Truthy(MapGet(lis, sampleOf[x]))} |->
        [sample |-> sampleOf[e], hidden |-> FALSE]]

\* the dots or the lines drawn: 'hidden' when legendItemState.get(sample) is falsy
PlotItems(sampleOf, lis) ==
    [e \in DOMAIN sampleOf |->
        [sample |-> sampleOf[e], hidden |-> ~Truthy(MapGet(lis, sampleOf[e]))]]

\* the render of makeFragmentLengthDistancePlot
ScatterDrawing(input) ==
    LET libraries == ScatterData(input)
    IN [throws |-> FALSE,
        data |-> libraries,
        samples |-> ScatterSamples(libraries),
        xDomain |-> ScatterXDomain(libraries),
        yDomain |-> ScatterYDomain(libraries),
        items |-> PlotItems([e \in DOMAIN input.metrics |-> SampleOf(input.metrics[e])],
                            input.selection)]

\* the render of makeLinePlot for chart c
LineDrawing(c, input) ==
    LET d == provideData(c, input)
    IN IF d.throws
       THEN Thrown
       ELSE [throws |-> FALSE,
             data |-> d,
             xDomain |-> << 0, d.xMax >>,
             yDomain |-> << 0, d.yMax >>,
             items |-> PlotItems([e \in DOMAIN d.series |-> d.series[e].sample], input.selection)]

\* the experiments of the dataset whose sample has a truthy entry
Visible(input) ==
    {e \in DOMAIN input.metrics : Truthy(MapGet(input.selection, SampleOf(input.metrics[e])))}

\* a variant of the render that computes everything from the experiments
\* of the selected samples, when there is one
DrawingOfVisible(c, input) ==
    LET seen == IF Visible(input) = {} THEN input
                ELSE [input EXCEPT !.metrics = [e \in Visible(input) |-> input.metrics[e]]]
    IN IF c = Scatter THEN ScatterDrawing(seen) ELSE LineDrawing(c, seen)

\* plots[c]() on a dataset
Drawing(c, input) == IF c = Scatter THEN ScatterDrawing(input) ELSE LineDrawing(c, input)

\* The datasets rendered.  An experiment has the fields the five plots read.
DefaultExperiment(id, n) ==
    [name |-> id,
     library |-> IF n = 2 THEN "" ELSE "L",
     sample |-> "A",
     fragment_length_distance |-> 10 * n,
     short_mononucleosomal_ratio |-> n,
     duplicate_autosomal_reads |-> n,
     total_autosomal_reads |-> 4,
     hqaa |-> 3,
     total_reads |-> 5,
     fragment_length_counts |-> IF n = 3 THEN << 2, 0, 1 >> ELSE << n, 1, 0, 2 >>,
     mapq_counts |-> IF n = 2 THEN << << 0, 1 >>, << 42, 4 >> >>
                     ELSE << << 0, n >>, << 30, 2 >>, << 60, 1 >> >>,
     peak_percentiles |-> Present([hqaa |-> << 1, 2 >>, territory |-> << 1, n >>])]

Exp(n, sample, x, pp) ==
    [DefaultExperiment(IdOrder[n], n) EXCEPT
        !.sample = sample, !.fragment_length_distance = x, !.peak_percentiles = pp]

Distances == {10 * i : i \in (0 - MaxDistance)..(MaxDistance + 1)}
Groups == {"A", "B"}
SomePercentiles == Present([hqaa |-> << 1, 2 >>, territory |-> << 2 >>])
PeakPercentiles ==
    {Absent,
     SomePercentiles,
     Present([hqaa |-> Forty, territory |-> << >>]),
     Present([hqaa |-> [i \in 1..(Percentiles + 1) |-> 1], territory |-> Forty])}

DatasetMetrics ==
    {("e1" :> Exp(1, s, x, SomePercentiles)) : s \in Groups, x \in Distances}
    \cup {("e1" :> Exp(1, s[1], x[1], SomePercentiles)) @@ ("e2" :> Exp(2, s[2], x[2], SomePercentiles)) :
              s \in Groups \X Groups, x \in Distances \X Distances}
    \cup {("e1" :> Exp(1, "A", 10, SomePercentiles)) @@ ("e2" :> Exp(2, "A", 20, SomePercentiles))
              @@ ("e3" :> Exp(3, "A", 30, SomePercentiles))}
    \cup {("e1" :> Exp(1, "A", 10, p[1])) @@ ("e2" :> Exp(2, "A", 0 - 20, p[2])) :
              p \in PeakPercentiles \X PeakPercentiles}
    \cup {("e1" :> Exp(1, "A", 10, p[1])) @@ ("e2" :> Exp(2, "A", 0 - 20, p[2])) @@ ("e3" :> Exp(3, "", 0, p[3])) :
              p \in PeakPercentiles \X PeakPercentiles \X PeakPercentiles}

\* the values of .resolution and .yaxis-select, and the reference distribution
DatasetOptions ==
    {[resolution |-> 1, yaxis |-> "short_mononucleosomal_ratio", reference |-> Present(<< 1, 2, 0, 1 >>)],
     [resolution |-> 2, yaxis |-> "duplicate_autosomal_reads", reference |-> Present(<< 1, 2, 0, 1 >>)],
     [resolution |-> 2, yaxis |-> "hqaa", reference |-> Absent]}

\* the states of legendItemState for a dataset: an entry for each sample,
\* as initialize adds them, with the values that clicks can give them
Selections(metrics) ==
    LET keys == SortedKeys(metrics)
        all == InitEntries(<< >>, [metrics |-> [i \in 1..Len(keys) |-> metrics[keys[i]]]], 1)
    IN {[i \in 1..Len(all) |-> [key |-> all[i].key, value |-> v[i]]] : v \in [1..Len(all) -> BOOLEAN]}

DatasetInputs ==
    UNION {{[kind |-> "dataset", metrics |-> m, resolution |-> o.resolution, yaxis |-> o.yaxis,
             reference |-> o.reference, selection |-> lis] :
                o \in DatasetOptions, lis \in Selections(m)} : m \in DatasetMetrics}

(***************************************************************************)
(* The state after the script has run: nothing configured, nothing         *)
(* rendered, no handler subscribed but changeSampleVisibility.             *)
(***************************************************************************)
InitPage ==
    /\ configuration = Unconfigured
    /\ legendItemState = << >>
    /\ dom = [c \in Charts |-> EmptyPlot]
    /\ closures = [c \in Charts |-> [subscribed |-> FALSE, experimentIDs |-> << >>, samples |-> NoSamples,
                                      listeners |-> [b \in Bindings |-> 0]]]
    /\ loads = << >>
    /\ debouncers = << >>
    /\ raf = 0
    /\ referenceToggle = TRUE
    /\ quiet = ResizeWait
    /\ status = ""
    /\ turn = Turn("script", << >>)

\* no call of provideData is followed
NoData == [plot |-> "", input |-> << >>, output |-> << >>]

Init == InitPage /\ data = NoData

\* configure(conf)
configure(conf) == configuration' = conf

\* initialize(), on the configuration cfg: the entries of legendItemState,
\* addEventListeners (one more debounced resize listener), loadExperiments
\* (the first timer of the chain)
initialize(cfg) ==
    /\ legendItemState' = InitEntries(legendItemState, cfg, 1)
    /\ debouncers' = Append(debouncers, NewDebouncer)
    /\ loads' = Append(loads, 1)

\* the page's script: ataqv.configure(conf); ataqv.initialize()
Load(conf) ==
    /\ Len(loads) < MaxLoads
    /\ configure(conf)
    /\ initialize(conf)
    /\ turn' = Turn("load", << >>)
    /\ UNCHANGED << dom, closures, raf, referenceToggle, quiet, data, status >>

(***************************************************************************)
(* loadExperiments: five timers, each set by the callback of the one       *)
(* before.  loads[i] is the timer pending in chain i (1..5), 6 when the    *)
(* chain has ended, 0 when a callback threw and set no further timer.      *)
(* Two chains use the same delays, so a later chain never overtakes.       *)
(***************************************************************************)
StageDue(i) ==
    /\ i \in 1..Len(loads)
    /\ loads[i] \in 1..5
    /\ i > 1 => (loads[i - 1] > loads[i] \/ loads[i - 1] = 0)

\* a variant of the chain that populates the tables before the plots
StageNamesTablesFirst == << "listExperiments", "populateTables", "setStatus", "populatePlots", "clearStatus" >>

StageNames == << "listExperiments", "populatePlots", "setStatus", "populateTables", "clearStatus" >>

\* the properties listExperiments sets on every experiment of
\* configuration.metrics for the columns of the experiments table
ListedFields == {"library_description", "description_with_url", "download_link"}

\* configuration after listExperiments
listExperiments(cfg) ==
    [cfg EXCEPT !.metrics = [i \in 1..Len(cfg.metrics) |-> [cfg.metrics[i] EXCEPT !.added = @ \cup ListedFields]]]

\* the messages of setStatus
CreatingPlots == "Creating plots..."
CreatingTables == "Creating metrics tables..."

\* #message after the callback of a timer other than the second
StatusAfter(stage, before) ==
    IF stage = "setStatus" THEN CreatingTables
    ELSE IF stage = "clearStatus" THEN ""
    ELSE before

\* timers 1, 3, 4, 5: listExperiments, setStatus('Creating metrics
\* tables...'), populateTables (which works on a JSON copy of
\* configuration.metrics), clearStatus
StageOther(i) ==
    /\ StageDue(i)
    /\ loads[i] # 2
    /\ loads' = [loads EXCEPT ![i] = @ + 1]
    /\ configuration' = IF StageNames[loads[i]] = "listExperiments" THEN listExperiments(configuration) ELSE configuration
    /\ status' = StatusAfter(StageNames[loads[i]], status)
    /\ turn' = Turn(StageNames[loads[i]], << >>)
    /\ UNCHANGED << legendItemState, dom, closures, debouncers, raf, referenceToggle, quiet, data >>

\* timer 2: setStatus('Creating plots...'); populatePlots(); the next timer
StagePlots(i) ==
    /\ StageDue(i)
    /\ loads[i] = 2
    /\ dom' = populatePlotsDom(configuration, legendItemState, referenceToggle, dom)
    /\ closures' = populatePlotsClosures(configuration, closures)
    /\ loads' = [loads EXCEPT ![i] = IF populatePlotsThrows(configuration) THEN 0 ELSE 3]
    /\ status' = CreatingPlots
    /\ turn' = Turn("populatePlots", populatePlotsEvents(configuration))
    /\ UNCHANGED << configuration, legendItemState, debouncers, raf, referenceToggle, quiet, data >>

(***************************************************************************)
(* Window resize.                                                          *)
(***************************************************************************)
\* a resize event: every debounced listener runs
Resize ==
    /\ Len(debouncers) > 0
    /\ debouncers' = [i \in 1..Len(debouncers) |-> Debounced(debouncers[i])]
    /\ quiet' = 0
    /\ turn' = Turn("resize", << >>)
    /\ UNCHANGED << configuration, legendItemState, dom, closures, loads, raf, referenceToggle, data, status >>

\* ms milliseconds pass
Tick(ms) ==
    /\ \/ \E i \in 1..Len(debouncers) : debouncers[i] # Elapse(debouncers[i], ms)
       \/ quiet < ResizeWait
    /\ debouncers' = [i \in 1..Len(debouncers) |-> Elapse(debouncers[i], ms)]
    /\ quiet' = IF quiet + ms > ResizeWait THEN ResizeWait ELSE quiet + ms
    /\ turn' = Turn("idle", << >>)
    /\ UNCHANGED << configuration, legendItemState, dom, closures, loads, raf, referenceToggle, data, status >>

\* deferred, the callback of the timer: requestAnimationFrame, timeout = null
Deferred(i) ==
    /\ i \in 1..Len(debouncers)
    /\ debouncers[i].timeout = 0
    /\ raf < MaxRaf
    /\ raf' = raf + 1
    /\ debouncers' = [debouncers EXCEPT ![i].timeout = -1, ![i].timers = @ - 1]
    /\ turn' = Turn("deferred", << >>)
    /\ UNCHANGED << configuration, legendItemState, dom, closures, loads, referenceToggle, quiet, data, status >>

\* the animation frame: the queued callbacks call populatePlots
AnimationFrame ==
    /\ raf > 0
    /\ raf' = 0
    /\ dom' = populatePlotsDom(configuration, legendItemState, referenceToggle, dom)
    /\ closures' = populatePlotsClosures(configuration, closures)
    /\ turn' = Turn("populatePlots", populatePlotsEvents(configuration))
    /\ UNCHANGED << configuration, legendItemState, loads, debouncers, referenceToggle, quiet, data, status >>

(***************************************************************************)
(* The controls addPlotConfigurationHandlers binds.                        *)
(***************************************************************************)
\* a variant of OptionChange whose render selects every sample again
OptionChangeReinit(c) ==
    /\ Len(loads) > 0
    /\ legendItemState' = SetAll(legendItemState, 1, TRUE)
    /\ dom' = RenderAllDom(<< c >>, configuration, legendItemState', referenceToggle, dom)
    /\ closures' = RenderAllClosures(<< c >>, configuration, closures)
    /\ turn' = Turn("change", RenderEvents(<< c >>, configuration))
    /\ UNCHANGED << configuration, loads, debouncers, raf, referenceToggle, quiet, data, status >>

\* a change event on a .plot-configuration control of chart c:
\* plots[this.dataset.plot]()
OptionChange(c) ==
    /\ Len(loads) > 0
    /\ dom' = RenderAllDom(<< c >>, configuration, legendItemState, referenceToggle, dom)
    /\ closures' = RenderAllClosures(<< c >>, configuration, closures)
    /\ turn' = Turn("change", RenderEvents(<< c >>, configuration))
    /\ UNCHANGED << configuration, legendItemState, loads, debouncers, raf, referenceToggle, quiet, data, status >>

\* a change event on the .referenceToggle checkbox, whose data-plot is the
\* fragment length plot: 'hidden' on the .reference elements of that plot
ReferenceToggle ==
    /\ Len(loads) > 0
    /\ referenceToggle' = ~referenceToggle
    /\ dom' = [dom EXCEPT ![FragLen].reference =
                  IF @ = "none" THEN @ ELSE IF referenceToggle' THEN "shown" ELSE "hidden"]
    /\ turn' = Turn("referenceToggle", << >>)
    /\ UNCHANGED << configuration, legendItemState, closures, loads, debouncers, raf, quiet, data, status >>

(***************************************************************************)
(* Legend clicks and the show all / hide all buttons.                      *)
(***************************************************************************)
\* a variant of selectLegendItem whose legendChange renders the plots again
selectLegendItemEventsRender(sample) ==
    << Event("set", sample), Event("legendChange", Null) >> \o populatePlotsEvents(configuration)

\* a variant of the two loops that calls legendChange after every entry
setAllEventsEach(lis) ==
    [i \in 1..(2 * Len(lis)) |->
        IF i % 2 = 1 THEN Event("set", lis[(i + 1) \div 2].key) ELSE Event("legendChange", Null)]

\* what selectLegendItem does, in order
selectLegendItemEvents(sample) == << Event("set", sample), Event("legendChange", Null) >>

\* what deselectAllLegendItems and selectAllLegendItems do, in order
setAllEvents(lis) == Append(SetEvents(lis), Event("legendChange", Null))

\* selectLegendItem, for a click on the legend item of sample in chart c
selectLegendItem(c, sample) ==
    /\ sample \in DOMAIN dom[c].legend
    /\ legendItemState' = ToggleEntry(legendItemState, sample)
    /\ dom' = changeSampleVisibility(legendItemState', dom)
    /\ turn' = [Turn("selectLegendItem", selectLegendItemEvents(sample)) EXCEPT
                    !.before = legendItemState,
                    !.again = (turn.op = "selectLegendItem" /\ turn.events[1].arg = sample)]
    /\ UNCHANGED << configuration, closures, loads, debouncers, raf, referenceToggle, quiet, data, status >>

\* selectLegendItem, for a click on the legend of chart c outside of its items
selectLegendItemMiss(c) ==
    /\ closures[c].subscribed
    /\ turn' = Turn("selectLegendItemMiss", << >>)
    /\ UNCHANGED << configuration, legendItemState, dom, closures, loads, debouncers, raf, referenceToggle, quiet, data, status >>

\* deselectAllLegendItems, bound to .hideall of chart c by its render
deselectAllLegendItems(c) ==
    /\ closures[c].subscribed
    /\ legendItemState' = SetAll(legendItemState, 1, FALSE)
    /\ dom' = changeSampleVisibility(legendItemState', dom)
    /\ turn' = Turn("deselectAllLegendItems", setAllEvents(legendItemState))
    /\ UNCHANGED << configuration, closures, loads, debouncers, raf, referenceToggle, quiet, data, status >>

\* selectAllLegendItems, bound to .showall of chart c by its render
selectAllLegendItems(c) ==
    /\ closures[c].subscribed
    /\ legendItemState' = SetAll(legendItemState, 1, TRUE)
    /\ dom' = changeSampleVisibility(legendItemState', dom)
    /\ turn' = Turn("selectAllLegendItems", setAllEvents(legendItemState))
    /\ UNCHANGED << configuration, closures, loads, debouncers, raf, referenceToggle, quiet, data, status >>

(***************************************************************************)
(* Hover events.                                                           *)
(***************************************************************************)
\* mouseover on the plot item of experiment id in chart c
ItemMouseover(c, id) ==
    /\ id \in DOMAIN dom[c].items
    /\ dom' = CallItemInspect(1, id, configuration, closures, dom)
    /\ turn' = Turn("mouseover", << Event("plotItemInspect", id) >>)
    /\ UNCHANGED << configuration, legendItemState, closures, loads, debouncers, raf, referenceToggle, quiet, data, status >>

\* mouseout of a plot item of chart c
ItemMouseout(c) ==
    /\ DOMAIN dom[c].items # {}
    /\ dom' = CallItemInspect(1, Null, configuration, closures, dom)
    /\ turn' = Turn("mouseout", << Event("plotItemInspect", Null) >>)
    /\ UNCHANGED << configuration, legendItemState, closures, loads, debouncers, raf, referenceToggle, quiet, data, status >>

\* mouseover on the colour or the label of the legend item of sample in chart c
LegendMouseover(c, sample) ==
    /\ sample \in DOMAIN dom[c].legend
    /\ dom' = CallSampleInspect(1, sample, closures, dom)
    /\ turn' = [Turn("mouseover", << Event("sampleInspect", sample) >>) EXCEPT !.target = c]
    /\ UNCHANGED << configuration, legendItemState, closures, loads, debouncers, raf, referenceToggle, quiet, data, status >>

\* mouseout of the colour or the label of a legend item of chart c
LegendMouseout(c) ==
    /\ DOMAIN dom[c].legend # {}
    /\ dom' = CallSampleInspect(1, Null, closures, dom)
    /\ turn' = Turn("mouseout", << Event("sampleInspect", Null) >>)
    /\ UNCHANGED << configuration, legendItemState, closures, loads, debouncers, raf, referenceToggle, quiet, data, status >>

(***************************************************************************)
(* Viewports.  d3.zoom keeps one transform per svg; a gesture asks for a   *)
(* scale, which scaleExtent clamps, and the translation is free.  A zoom   *)
(* gesture here is centred on the point the origin is drawn at, so it      *)
(* leaves the translation alone.                                           *)
(***************************************************************************)
MaxScale(c) == IF c = Scatter THEN ScatterMaxScale ELSE LineMaxScale

\* the scales a wheel or double click gesture may ask for: below the extent,
\* inside it, above the extent of the line plots, above every extent
ScaleRequests == {0, 2, ScatterMaxScale, ScatterMaxScale + 1}

\* variant: a scale extent without its upper end
ClampScaleFromBelow(c, k) == IF k < MinScale THEN MinScale ELSE k

\* the constraint of scaleExtent
ClampScale(c, k) == IF k < MinScale THEN MinScale ELSE IF k > MaxScale(c) THEN MaxScale(c) ELSE k

HasSvg(c) == closures[c].subscribed /\ DOMAIN dom[c].items # {}

\* variant: one transform shared by the svgs of every chart
ZoomShared(c, k) ==
    /\ HasSvg(c)
    /\ dom' = [x \in Charts |-> [dom[x] EXCEPT !.zoom = [k |-> ClampScale(x, k), x |-> @.x, resetting |-> FALSE]]]
    /\ turn' = Turn("zoom", << >>)
    /\ UNCHANGED << configuration, legendItemState, closures, loads, debouncers, raf, referenceToggle, quiet, data, status >>

\* a wheel or double click gesture on the svg of chart c; it interrupts a
\* running transition
Zoom(c, k) ==
    /\ HasSvg(c)
    /\ dom' = [dom EXCEPT ![c].zoom = [k |-> ClampScale(c, k), x |-> @.x, resetting |-> FALSE]]
    /\ turn' = Turn("zoom", << >>)
    /\ UNCHANGED << configuration, legendItemState, closures, loads, debouncers, raf, referenceToggle, quiet, data, status >>

\* a drag on the svg of chart c
Pan(c, dx) ==
    /\ HasSvg(c)
    /\ dom[c].zoom.x + dx \in -MaxPan..MaxPan
    /\ dom' = [dom EXCEPT ![c].zoom = [k |-> @.k, x |-> @.x + dx, resetting |-> FALSE]]
    /\ turn' = Turn("pan", << >>)
    /\ UNCHANGED << configuration, legendItemState, closures, loads, debouncers, raf, referenceToggle, quiet, data, status >>

\* the listeners a click on .reset runs, in the order they were added: the
\* last is the reset of the latest render, the others hold the svg and the
\* zoom behaviour of renders before it
ResetEvents(n) == [i \in 1..n |-> Event("reset", IF i = n THEN "latest" ELSE "stale")]

\* variant: a reset of the transform only
ResetKeepsDetail(c) ==
    /\ HasSvg(c)
    /\ dom' = [dom EXCEPT ![c].zoom.resetting = TRUE]
    /\ turn' = Turn("reset", ResetEvents(closures[c].listeners["reset"]))
    /\ UNCHANGED << configuration, legendItemState, closures, loads, debouncers, raf, referenceToggle, quiet, data, status >>

\* reset, bound to .reset of chart c by its render: the help text, and a
\* transition of 500 ms to d3.zoomIdentity
Reset(c) ==
    /\ HasSvg(c)
    /\ dom' = [dom EXCEPT ![c].detail = Help, ![c].zoom.resetting = TRUE]
    /\ turn' = Turn("reset", ResetEvents(closures[c].listeners["reset"]))
    /\ UNCHANGED << configuration, legendItemState, closures, loads, debouncers, raf, referenceToggle, quiet, data, status >>

\* the transition of reset ends
ResetEnd(c) ==
    /\ dom[c].zoom.resetting
    /\ dom' = [dom EXCEPT ![c].zoom = ZoomIdentity]
    /\ turn' = Turn("resetEnd", << >>)
    /\ UNCHANGED << configuration, legendItemState, closures, loads, debouncers, raf, referenceToggle, quiet, data, status >>

(***************************************************************************)
(* Specifications.                                                         *)
(***************************************************************************)
\* the timers of loadExperiments
Staging ==
    \/ \E i \in 1..Len(loads) : StageOther(i)
    \/ \E i \in 1..Len(loads) : StagePlots(i)

\* the debounced resize
Resizing ==
    \/ Resize
    \/ Tick(TickMs)
    \/ \E i \in 1..Len(debouncers) : Deferred(i)
    \/ AnimationFrame

\* the legends and the show all / hide all buttons of the charts cs
Selecting(cs) ==
    \/ \E c \in cs : \E s \in DOMAIN dom[c].legend : selectLegendItem(c, s)
    \/ \E c \in cs : selectLegendItemMiss(c)
    \/ \E c \in cs : deselectAllLegendItems(c)
    \/ \E c \in cs : selectAllLegendItems(c)

\* the pointer over the plot items and the legends of the charts cs
Hovering(cs) ==
    \/ \E c \in cs : \E e \in DOMAIN dom[c].items : ItemMouseover(c, e)
    \/ \E c \in cs : ItemMouseout(c)
    \/ \E c \in cs : \E s \in DOMAIN dom[c].legend : LegendMouseover(c, s)
    \/ \E c \in cs : LegendMouseout(c)

\* the viewports of the charts cs
Viewing(cs) ==
    \/ \E c \in cs : \E k \in ScaleRequests : Zoom(c, k)
    \/ \E c \in cs : \E dx \in {-1, 1} : Pan(c, dx)
    \/ \E c \in cs : Reset(c)
    \/ \E c \in cs : ResetEnd(c)

\* One page load of any dataset; the window resize, the legends and the
\* buttons of every chart, and the options of the scatter plot and of one
\* line plot.
Next ==
    \/ \E conf \in Datasets : Len(loads) = 0 /\ Load(conf)
    \/ Staging
    \/ Resizing
    \/ \E c \in Operated : OptionChange(c)
    \/ Selecting(Charts)

Spec == Init /\ [][Next]_vars

\* Page loads one after the other, each with configure and initialize.
NextReload ==
    \/ \E conf \in ReloadDatasets : Load(conf)
    \/ Staging
    \/ Selecting(Charts)

SpecReload == Init /\ [][NextReload]_vars

\* One page load; the pointer over the plot items and the legends of every
\* chart, and renders of single charts in between.
NextHover ==
    \/ \E conf \in HoverDatasets : Len(loads) = 0 /\ Load(conf)
    \/ Staging
    \/ \E c \in Operated : OptionChange(c)
    \/ Hovering(Charts)

SpecHover == Init /\ [][NextHover]_vars

\* the chain of timers of the one page load has ended
Settled == loads = << 6 >>

\* One page load of the smallest dataset; once the page is populated, every
\* handler of the page: the pointer, the legends and the controls of the
\* scatter plot and of one line plot, the viewport of the line plot, the
\* window resize.
NextFrame ==
    \/ Len(loads) = 0 /\ Load(DsSingle)
    \/ Staging
    \/ Settled /\ Resizing
    \/ Settled /\ \E c \in Operated : OptionChange(c)
    \/ Settled /\ ReferenceToggle
    \/ Settled /\ Selecting(Operated)
    \/ Settled /\ Hovering(Operated)
    \/ Settled /\ Viewing({FragLen})

SpecFrame == Init /\ [][NextFrame]_vars

\* One page load of the smallest dataset; once the page is populated, the
\* viewports and the options of the scatter plot and of one line plot, and
\* the window resize.
NextView ==
    \/ Len(loads) = 0 /\ Load(DsSingle)
    \/ Staging
    \/ Settled /\ Resizing
    \/ Settled /\ \E c \in Operated : OptionChange(c)
    \/ Settled /\ Viewing(Operated)

SpecView == Init /\ [][NextView]_vars

\* One page load of the smallest dataset; once the page is populated, the
\* pointer, the legends and the viewports of the scatter plot and of one line
\* plot.
NextReset ==
    \/ Len(loads) = 0 /\ Load(DsSingle)
    \/ Staging
    \/ Settled /\ Selecting(Operated)
    \/ Settled /\ Hovering(Operated)
    \/ Settled /\ Viewing(Operated)

SpecReset == Init /\ [][NextReset]_vars

\* One page load of the smallest dataset, and bursts of resize events
\* BurstGap ms apart; a timer that is due runs before the next resize event.
NextResize ==
    \/ Len(loads) = 0 /\ Load(DsSingle)
    \/ Staging
    \/ (\A i \in 1..Len(debouncers) : debouncers[i].timeout # 0) /\ Resize
    \/ Tick(BurstGap)
    \/ \E i \in 1..Len(debouncers) : Deferred(i)
    \/ AnimationFrame

SpecResize == Init /\ [][NextResize]_vars

\* One page load of the smallest dataset and resize events at any multiple of
\* BurstGap ms, also while a timer is due.  Time goes on; a timer that is due
\* again and again fires, and so does an animation frame that is requested.
NextDebounce ==
    \/ Len(loads) = 0 /\ Load(DsSingle)
    \/ Staging
    \/ Resize
    \/ Tick(BurstGap)
    \/ \E i \in 1..Len(debouncers) : Deferred(i)
    \/ AnimationFrame

FairDebounce ==
    /\ WF_vars(Staging)
    /\ WF_vars(Tick(BurstGap))
    /\ \A i \in 1..MaxLoads : SF_vars(Deferred(i))
    /\ WF_vars(AnimationFrame)

SpecDebounce == Init /\ [][NextDebounce]_vars /\ FairDebounce

\* The data transforms alone, each on every dataset of its kind.
pageVars ==
    << configuration, legendItemState, dom, closures, loads, debouncers, raf, referenceToggle,
       quiet, status, turn >>

InitTransform ==
    /\ InitPage
    /\ data \in {[plot |-> "", input |-> i, output |-> << >>] : i \in FragmentLengthInputs \cup PeakInputs}

ProvideFragmentLength ==
    /\ data.input.kind = "fragment_length"
    /\ data.plot # FragLen
    /\ data' = [data EXCEPT
                   !.plot = FragLen,
                   !.output = << plotFragmentLength(data.input.metrics, data.input.reference,
                                                    data.input.resolution) >>]
    /\ UNCHANGED pageVars

ProvidePeakReadCounts ==
    /\ data.input.kind = "peak"
    /\ data.plot # PeakReads
    /\ data' = [data EXCEPT !.plot = PeakReads,
                            !.output = << plotPeakReadCounts(data.input.peak_percentiles) >>]
    /\ UNCHANGED pageVars

ProvidePeakTerritory ==
    /\ data.input.kind = "peak"
    /\ data.plot # PeakTerr
    /\ data' = [data EXCEPT !.plot = PeakTerr,
                            !.output = << plotPeakTerritory(data.input.peak_percentiles) >>]
    /\ UNCHANGED pageVars

NextTransform ==
    \/ ProvideFragmentLength
    \/ ProvidePeakReadCounts
    \/ ProvidePeakTerritory

SpecTransform == InitTransform /\ [][NextTransform]_vars

\* The renders of whole datasets, each chart on every dataset, under every
\* state of legendItemState.
InitDataset ==
    /\ InitPage
    /\ data \in {[plot |-> "", input |-> i, output |-> << >>] : i \in DatasetInputs}

\* plots[c](): the render of chart c
Draw(c) ==
    /\ data.input.kind = "dataset"
    /\ data.plot # c
    /\ data' = [data EXCEPT !.plot = c, !.output = << Drawing(c, data.input) >>]
    /\ UNCHANGED pageVars

NextDataset == \E c \in Charts : Draw(c)

SpecDataset == InitDataset /\ [][NextDataset]_vars

(***************************************************************************)
(* Properties.                                                             *)
(***************************************************************************)
Mutations == {"selectLegendItem", "deselectAllLegendItems", "selectAllLegendItems"}

Selected(sample) == Truthy(MapGet(legendItemState, sample))
Entries(lis, sample) == {i \in 1..Len(lis) : lis[i].key = sample}
Count(events, ev) == Cardinality({i \in 1..Len(events) : events[i].ev = ev})

\* C1: once populatePlots has rendered the charts, every plot item of every
\* chart is 'hidden' if and only if the entry of its sample is false, and
\* every legend item is 'targetHidden' if and only if its entry is false.
C1_VisibilityFollowsSelection ==
    (Len(loads) > 0 /\ loads[1] >= 3) =>
    \A c \in Charts :
        /\ \A e \in DOMAIN dom[c].items :
              dom[c].items[e].hidden <=> ~Selected(dom[c].items[e].sample)
        /\ \A s \in DOMAIN dom[c].legend : dom[c].legend[s] <=> ~Selected(s)

\* C2: the keys of legendItemState are the samples of the configured dataset.
C2_KeysAreTheSamples == MapKeys(legendItemState) = Samples(configuration)

\* C3: after initialize every sample of the dataset has exactly one entry,
\* and the entry is true.
C3_InitializeSelectsEverySample ==
    turn.op = "load" =>
        \A s \in Samples(configuration) :
            /\ Cardinality(Entries(legendItemState, s)) = 1
            /\ Selected(s)

C3_Witness ==
    /\ turn.op = "load"
    /\ \E i, j \in 1..Len(configuration.metrics) :
          i # j /\ SampleOf(configuration.metrics[i]) = SampleOf(configuration.metrics[j])

\* C4: a click on the legend item of a sample flips the entry of that
\* sample, leaves every other entry as it was and adds or removes no key.
C4_ToggleFlipsOneEntry ==
    [][turn'.op = "selectLegendItem" =>
          /\ Len(legendItemState') = Len(legendItemState)
          /\ \A i \in 1..Len(legendItemState) :
                /\ legendItemState'[i].key = legendItemState[i].key
                /\ legendItemState'[i].value =
                      IF legendItemState[i].key = turn'.events[1].arg
                      THEN ~legendItemState[i].value
                      ELSE legendItemState[i].value
          /\ turn'.events[1].arg \in MapKeys(legendItemState)]_vars

C4_Witness ==
    /\ turn.op = "selectLegendItem"
    /\ ~Selected(turn.events[1].arg)
    /\ \E s \in MapKeys(legendItemState) : s # turn.events[1].arg /\ Selected(s)

\* C5: two clicks in a row on the legend item of one sample leave
\* legendItemState as it was before the first.
C5_ToggleTwiceRestores ==
    [][(turn'.op = "selectLegendItem" /\ turn'.again)
          => legendItemState' = turn.before]_vars

C5_Witness ==
    /\ turn.op = "selectLegendItem"
    /\ turn.again
    /\ Selected(turn.events[1].arg)
    /\ Len(legendItemState) > 1
    /\ \E s \in MapKeys(legendItemState) : ~Selected(s)

\* C6: hide all leaves every entry false and show all leaves every entry
\* true, whatever came before, so also one right after the other; neither
\* changes the keys.
C6_SetAllSetsEveryEntry ==
    [][/\ turn'.op = "deselectAllLegendItems" =>
            /\ \A i \in 1..Len(legendItemState') : legendItemState'[i].value = FALSE
            /\ [i \in 1..Len(legendItemState') |-> legendItemState'[i].key]
                  = [i \in 1..Len(legendItemState) |-> legendItemState[i].key]
       /\ turn'.op = "selectAllLegendItems" =>
            /\ \A i \in 1..Len(legendItemState') : legendItemState'[i].value = TRUE
            /\ [i \in 1..Len(legendItemState') |-> legendItemState'[i].key]
                  = [i \in 1..Len(legendItemState) |-> legendItemState[i].key]]_vars

C6_Witness ==
    /\ turn.op = "deselectAllLegendItems"
    /\ Len(legendItemState) > 1
    /\ \A s \in MapKeys(legendItemState) : ~Selected(s)

\* C7: a toggle, a show all and a hide all each call legendChange once,
\* after the last entry is set; no other turn calls it.
C7_OneLegendChangePerMutation ==
    /\ turn.op \in Mutations =>
          /\ Count(turn.events, "legendChange") = 1
          /\ turn.events[Len(turn.events)].ev = "legendChange"
          /\ \A i \in 1..(Len(turn.events) - 1) : turn.events[i].ev = "set"
    /\ turn.op \notin Mutations => Count(turn.events, "legendChange") = 0

C7_Witness ==
    /\ turn.op = "selectAllLegendItems"
    /\ Count(turn.events, "set") > 1
    /\ Count(turn.events, "legendChange") = 1

Renders == {"populatePlots", "change"}
HoverOps == {"mouseover", "mouseout"}

\* dom without the classes 'hidden' and 'targetHidden'
Unclassed(d) ==
    [c \in Charts |->
        [d[c] EXCEPT
            !.items = [e \in DOMAIN @ |-> [@[e] EXCEPT !.hidden = FALSE]],
            !.legend = [s \in DOMAIN @ |-> FALSE]]]

\* dom without the classes 'highlight' and 'unhighlight' and the detail text
Unmarked(d) == [c \in Charts |-> [ClearMarks(d)[c] EXCEPT !.detail = Help]]

\* C8: no turn but a legend click, show all and hide all (and initialize,
\* which makes the entries) changes legendItemState: not a hover, a zoom, a
\* pan, a reset, an option change, a reference toggle or a resize re-render.
C8_OnlyMutationsChangeSelection ==
    [][turn'.op \notin (Mutations \cup {"load"}) => legendItemState' = legendItemState]_vars

C8_Witness ==
    /\ turn.op = "populatePlots"
    /\ Settled
    /\ dom[FragLen].reference = "hidden"
    /\ \E s \in MapKeys(legendItemState) : ~Selected(s)

\* C9: only a render runs a data transform; a legendChange changes nothing
\* but 'hidden' and 'targetHidden', a hover nothing but 'highlight',
\* 'unhighlight' and the detail text, and a zoom, a pan or a reset runs no
\* transform either.
C9_TransformsRunOnlyInRenders ==
    [][/\ turn'.op \notin Renders => Count(turn'.events, "transform") = 0
       /\ turn'.op \in Mutations => Unclassed(dom') = Unclassed(dom)
       /\ turn'.op \in HoverOps => Unmarked(dom') = Unmarked(dom)]_vars

C9_Witness ==
    /\ turn.op = "selectLegendItem"
    /\ dom[FragLen].zoom.k > MinScale
    /\ \E e \in DOMAIN dom[FragLen].items : dom[FragLen].items[e].hidden

\* an event of a hover channel that carries null or no identifier of the dataset
CarriesNone(e) ==
    \/ e.ev = "plotItemInspect" /\ e.arg \notin Ids(configuration)
    \/ e.ev = "sampleInspect" /\ e.arg \notin Samples(configuration)

\* C10: after a plotItemInspect or sampleInspect that carries null or no
\* identifier of the dataset, no plot item of any chart has 'highlight' or
\* 'unhighlight', and every chart subscribed to the channel shows its help.
C10_HoverNoneClearsMarks ==
    (turn.op \in HoverOps /\ CarriesNone(turn.events[1])) =>
        /\ \A c \in Charts : \A e \in DOMAIN dom[c].items :
              ~dom[c].items[e].highlight /\ ~dom[c].items[e].unhighlight
        /\ \A c \in Charts : closures[c].subscribed => dom[c].detail = Help

C10_Witness ==
    /\ turn.op = "mouseout"
    /\ turn.events[1] = Event("sampleInspect", Null)
    /\ \A c \in Charts : closures[c].subscribed
    /\ Cardinality(Ids(configuration)) > 1

\* populatePlots has returned in the page load
Populated == Len(loads) > 0 /\ loads[1] >= 3

\* C11: after a mouseover on a plot item of experiment E, in every chart the
\* plot items of E, and no other, have 'highlight', every other plot item
\* has 'unhighlight', and every chart that is subscribed shows the detail
\* of E; once populatePlots has returned, that is each of the five charts.
C11_ItemHoverMarksEveryChart ==
    (turn.op = "mouseover" /\ turn.events[1].ev = "plotItemInspect") =>
        LET E == turn.events[1].arg
        IN /\ E \in Ids(configuration)
           /\ \A c \in Charts : \A e \in DOMAIN dom[c].items :
                 /\ dom[c].items[e].highlight <=> e = E
                 /\ e # E => dom[c].items[e].unhighlight
           /\ \A c \in Charts :
                 closures[c].subscribed => dom[c].detail = ItemDetail(E, configuration)
           /\ Populated =>
                 \A c \in Charts : closures[c].subscribed /\ E \in DOMAIN dom[c].items

C11_Witness ==
    /\ turn.op = "mouseover"
    /\ turn.events[1].ev = "plotItemInspect"
    /\ Populated
    /\ Cardinality(Ids(configuration)) > 1
    /\ \E c \in Charts : \E e \in DOMAIN dom[c].items : dom[c].items[e].unhighlight /\ ~dom[c].items[e].highlight

\* C12: a mouseover on a legend item of chart C for sample S rewrites the
\* detail of C only (the detail of every other chart stays as it was), and
\* marks the plot items of S 'highlight' in every chart.
C12_LegendHoverWritesOwnDetailOnly ==
    [][(turn'.op = "mouseover" /\ turn'.events[1].ev = "sampleInspect") =>
          /\ dom'[turn'.target].detail = SampleDetail(turn'.events[1].arg)
          /\ \A x \in Charts \ {turn'.target} : dom'[x].detail = dom[x].detail
          /\ \A x \in Charts : \A e \in DOMAIN dom'[x].items :
                dom'[x].items[e].sample = turn'.events[1].arg => dom'[x].items[e].highlight]_vars

\* a legend mouseover after which another chart, too, shows the detail of S
C12_OtherDetailRewritten ==
    /\ turn.op = "mouseover"
    /\ turn.events[1].ev = "sampleInspect"
    /\ \E x \in Charts \ {turn.target} : dom[x].detail = SampleDetail(turn.events[1].arg)

\* C13: every listener of a rendered chart is bound once, by its latest
\* render, and a click on reset runs one handler, the reset of the latest
\* render, and none of a render before it.
C13_OneHandlerOfLatestRender ==
    /\ \A c \in Charts : closures[c].subscribed =>
          \A b \in Bindings \ {"reset"} : closures[c].listeners[b] = 1
    /\ turn.op = "reset" => turn.events = << Event("reset", "latest") >>

\* a click on reset that ran a handler of an earlier render
C13_StaleResetRan ==
    /\ turn.op = "reset"
    /\ \E i \in 1..Len(turn.events) : turn.events[i].arg = "stale"

\* C14: the timer of the debounce, whose callback queues the one re-render
\* of a burst, fires only when ResizeWait ms have passed since the latest
\* resize event: the re-render comes after the last event of the burst and
\* none runs while the burst goes on.
C14_RenderAfterQuietPeriod ==
    [][raf' = raf + 1 => quiet >= ResizeWait]_vars

\* a re-render queued less than ResizeWait ms after a resize event
C14_RenderDuringBurst ==
    /\ turn.op = "deferred"
    /\ raf > 0
    /\ quiet < ResizeWait

C16_NeverHalts ==
    \A i \in 1..Len(loads) :
        /\ loads[i] # 0
        /\ loads[i] >= 3 => \A c \in Charts : closures[c].subscribed

\* the chain has ended in populatePlots, with four charts never rendered
C16_Halted ==
    /\ loads = << 0 >>
    /\ turn.op = "populatePlots"
    /\ closures[Scatter].subscribed
    /\ \A c \in Charts \ {Scatter} : ~closures[c].subscribed

(***************************************************************************)
(* The data transforms.                                                    *)
(***************************************************************************)
\* what provideData returned
Out == data.output[1]
FragmentLengthDone == data.plot = FragLen /\ Len(data.output) = 1 /\ ~Out.throws
PeakDone == data.plot \in {PeakReads, PeakTerr} /\ Len(data.output) = 1

Xs(line) == [i \in 1..Len(line) |-> line[i].x]

\* the sum of the entries of f at the positions lo..hi it has
RECURSIVE WindowSum(_, _, _)
WindowSum(f, lo, hi) ==
    IF hi < lo THEN 0
    ELSE (IF hi >= 0 /\ hi < Len(f) THEN f[hi + 1] ELSE 0) + WindowSum(f, lo, hi - 1)

\* C17: with resolution r and plotted maximum length M, an experiment's
\* series has, for every window start k*r below M, exactly one point with
\* x = k*r, and its y is the sum of the fractions at the positions
\* k*r .. k*r + r - 1, divided by r.
C17_BlockMeanResampling ==
    FragmentLengthDone =>
        \A e \in DOMAIN Out.series :
            LET f == data.input.metrics[e]
                r == data.input.resolution
                line == Out.series[e]
            IN \A k \in 0..Out.xMax :
                   k * r < Out.xMax =>
                       /\ Cardinality({i \in 1..Len(line) : line[i].x = k * r}) = 1
                       /\ \A i \in 1..Len(line) :
                              line[i].x = k * r =>
                                  RatioEq(line[i].y, Ratio(WindowSum(f, k * r, k * r + r - 1), r))

\* the fractions 2, 4, 6, 8 at resolution 2 give the points (0, 2/2) and
\* (2, 10/2): each y is the sum of the window that ends at x
C17_TrailingWindows ==
    /\ FragmentLengthDone
    /\ data.input.metrics = ("e1" :> << 2, 4, 6, 8 >>)
    /\ data.input.resolution = 2
    /\ Out.series["e1"] = << [x |-> 0, y |-> Ratio(2, 2)], [x |-> 2, y |-> Ratio(10, 2)] >>

\* C18: the plotted maximum length is the least number of histogram entries
\* of an experiment, and no point of a series or of the reference curve has
\* its x at or beyond it.
C18_TruncatedToShortest ==
    FragmentLengthDone =>
        LET metrics == data.input.metrics
        IN /\ \E e \in DOMAIN metrics : Out.xMax = Len(metrics[e])
           /\ \A e \in DOMAIN metrics :
                  /\ Out.xMax <= Len(metrics[e])
                  /\ \A i \in 1..Len(Out.series[e]) : Out.series[e][i].x < Out.xMax
           /\ \A i \in 1..Len(Out.reference_series) : Out.reference_series[i].x < Out.xMax

\* histograms of 150 and of 120 entries are plotted up to 120
C18_Witness ==
    /\ FragmentLengthDone
    /\ Len(data.input.metrics["e1"]) = 150
    /\ Len(data.input.metrics["e2"]) = 120
    /\ Out.xMax = 120
    /\ Len(Out.series["e1"]) > 0
    /\ Len(Out.reference_series) > 0

\* C19: the reference curve has the x values of every experiment's series,
\* in the same order, and its y values follow the rule of the series: a
\* histogram that agrees with the reference distribution up to the plotted
\* maximum length has the reference curve as its series.
C19_ReferenceBinnedLikeSeries ==
    FragmentLengthDone =>
        \A e \in DOMAIN Out.series :
            /\ Xs(Out.reference_series) = Xs(Out.series[e])
            /\ (\A i \in 1..Out.xMax : data.input.metrics[e][i] = data.input.reference[1][i])
                   => Out.reference_series = Out.series[e]

\* a histogram of several windows that agrees with the reference distribution
C19_Witness ==
    /\ FragmentLengthDone
    /\ data.input.resolution = 2
    /\ data.input.metrics = ("e1" :> << 1, 2, 0, 1 >>)
    /\ Len(data.input.reference[1]) > 4
    /\ Len(Out.reference_series) = 2
    /\ Out.reference_series = Out.series["e1"]

\* the array a peak plot reads
PercentileArray ==
    IF data.plot = PeakReads THEN data.input.peak_percentiles[1].hqaa
    ELSE data.input.peak_percentiles[1].territory

\* C20: in both cumulative curves, for an array of L entries, 0 < L < 100,
\* the point of 1-based index k has the entry k - 1 as its y when k <= L and
\* the last entry, L - 1, when k > L.
C20_PercentileCarryForward ==
    (PeakDone /\ Len(data.input.peak_percentiles) = 1) =>
        LET array == PercentileArray
            L == Len(array)
        IN (0 < L /\ L < Percentiles) =>
               /\ Len(Out.line) = Percentiles
               /\ \A k \in 1..Percentiles :
                      /\ Out.line[k].x = k
                      /\ Out.line[k].y = IF k <= L THEN array[k] ELSE array[L]

\* an array of 40 entries: the points 41 to 100 have the entry 39
C20_Witness ==
    /\ PeakDone
    /\ Len(data.input.peak_percentiles) = 1
    /\ Len(PercentileArray) = 40
    /\ PercentileArray[40] > 0
    /\ \A k \in 41..Percentiles : Out.line[k].y = PercentileArray[40]

(***************************************************************************)
(* The renders of whole datasets.                                          *)
(***************************************************************************)
\* chart c has been rendered from the dataset, and the render returned
Drawn(c) ==
    /\ data.input.kind = "dataset"
    /\ data.plot = c
    /\ Len(data.output) = 1
    /\ ~Out.throws

Without(metrics, e) == [x \in DOMAIN metrics \ {e} |-> metrics[x]]

\* C21: in both cumulative curves every experiment of the dataset has a
\* series of exactly 100 points with x = 1, ..., 100 in this order, whatever
\* the number of entries of its array; an experiment without
\* peak_percentiles has 100 points with y = 0, and the series of the other
\* experiments are those of the dataset without it.
C21_HundredPointsPerExperiment ==
    \A c \in {PeakReads, PeakTerr} :
        Drawn(c) =>
            LET metrics == data.input.metrics
                series == Out.data.series
            IN /\ DOMAIN series = DOMAIN metrics
               /\ \A e \in DOMAIN metrics :
                      /\ Len(series[e].line) = Percentiles
                      /\ \A k \in 1..Percentiles : series[e].line[k].x = k
                      /\ Len(metrics[e].peak_percentiles) = 0 =>
                             \A k \in 1..Percentiles : series[e].line[k].y = 0
               /\ \A a \in DOMAIN metrics :
                      (Len(metrics[a].peak_percentiles) = 0 /\ DOMAIN metrics # {a}) =>
                          \A e \in DOMAIN metrics \ {a} :
                              series[e] = providePeakData(c, Without(metrics, a)).series[e]

\* an experiment without peak_percentiles between one with more than 100
\* entries and one with 40
C21_Witness ==
    /\ Drawn(PeakReads)
    /\ DOMAIN data.input.metrics = {"e1", "e2", "e3"}
    /\ Len(data.input.metrics["e1"].peak_percentiles) = 1
    /\ Len(data.input.metrics["e1"].peak_percentiles[1].hqaa) > Percentiles
    /\ Len(data.input.metrics["e2"].peak_percentiles) = 0
    /\ data.input.metrics["e3"].peak_percentiles = Present([hqaa |-> Forty, territory |-> << >>])
    /\ Len(Out.data.series["e1"].line) = Percentiles
    /\ Out.data.series["e2"].line[Percentiles].y = 0
    /\ Out.data.series["e3"].line[Percentiles].y = 40

\* the sum of the values of a function of integers
RECURSIVE SumOf(_)
SumOf(f) ==
    IF DOMAIN f = {} THEN 0
    ELSE LET e == CHOOSE x \in DOMAIN f : TRUE
         IN f[e] + SumOf(Without(f, e))

\* the experiments of sample s in the dataset, and their x values
Members(s) == {e \in DOMAIN data.input.metrics : SampleOf(data.input.metrics[e]) = s}
Distance(s) == [e \in Members(s) |-> data.input.metrics[e].fragment_length_distance]

\* C22: for every sample group of the scatter plot, of N >= 1 libraries with
\* x values of sum S, the mean distance is S / N and the square of the
\* standard deviation is the sum of the (x - S / N)^2 divided by N, which is
\* the sum of the (N * x - S)^2 divided by N^3; it is 0 for a single library.
C22_PopulationDeviation ==
    Drawn(Scatter) =>
        /\ DOMAIN Out.samples = {SampleOf(data.input.metrics[e]) : e \in DOMAIN data.input.metrics}
        /\ \A s \in DOMAIN Out.samples :
               LET N == Cardinality(Members(s))
                   S == SumOf(Distance(s))
                   squares == [e \in Members(s) |-> (N * Distance(s)[e] - S) * (N * Distance(s)[e] - S)]
               IN /\ N >= 1
                  /\ Len(Out.samples[s].libraries) = N
                  /\ RatioEq(Out.samples[s].meanDistance, Ratio(S, N))
                  /\ RatioEq(Out.samples[s].squareOfStandardDeviation, Ratio(SumOf(squares), N * N * N))
                  /\ N = 1 => RatioEq(Out.samples[s].squareOfStandardDeviation, Ratio(0, 1))

\* the x values 10, 20, 30 of one sample: mean 20, squared deviation 200 / 3
C22_Witness ==
    /\ Drawn(Scatter)
    /\ Members("A") = {"e1", "e2", "e3"}
    /\ {Distance("A")[e] : e \in Members("A")} = {10, 20, 30}
    /\ RatioEq(Out.samples["A"].meanDistance, Ratio(20, 1))
    /\ RatioEq(Out.samples["A"].squareOfStandardDeviation, Ratio(200, 3))

\* the x values of the dataset
AllDistances == {data.input.metrics[e].fragment_length_distance : e \in DOMAIN data.input.metrics}
RatioLeq(a, b) == ~RatioLess(b, a)

\* C23: with limit the larger of |min x| and |max x| times 1.05, the x
\* domain of the scatter plot is [-limit, limit] when an x value is negative
\* and [0, limit] otherwise, and every x value lies in it.
C23_ScatterXDomain ==
    Drawn(Scatter) =>
        LET limit == Ratio(105 * IntMax({Abs(x) : x \in AllDistances}), 100)
            lower == IF \E x \in AllDistances : x < 0 THEN Ratio(0 - limit.num, limit.den) ELSE Ratio(0, 1)
        IN /\ RatioEq(Out.xDomain[1], lower)
           /\ RatioEq(Out.xDomain[2], limit)
           /\ \A x \in AllDistances :
                  RatioLeq(Out.xDomain[1], Ratio(x, 1)) /\ RatioLeq(Ratio(x, 1), Out.xDomain[2])

\* x values -20 and 10: the domain is [-21, 21]
C23_Witness ==
    /\ Drawn(Scatter)
    /\ AllDistances = {0 - 20, 10}
    /\ RatioEq(Out.xDomain[1], Ratio(0 - 21, 1))
    /\ RatioEq(Out.xDomain[2], Ratio(21, 1))

\* the render of chart c from the same dataset and controls under lis
Under(c, lis) == Drawing(c, [data.input EXCEPT !.selection = lis])

\* C24: the x and y domains of a render of any of the five charts are those
\* of the render of the same dataset, with the same values of the controls,
\* under every other state of legendItemState.
C24_DomainsIgnoreSelection ==
    \A c \in Charts :
        Drawn(c) =>
            \A lis \in Selections(data.input.metrics) :
                /\ ~Under(c, lis).throws
                /\ Under(c, lis).xDomain = Out.xDomain
                /\ Under(c, lis).yDomain = Out.yDomain

\* the sample of the experiment with the largest values is hidden
C24_Witness ==
    /\ Drawn(Mapq)
    /\ DOMAIN data.input.metrics = {"e1", "e2"}
    /\ Out.items["e2"].hidden
    /\ ~Out.items["e1"].hidden
    /\ Out.xDomain = << 0, 60 >>
    /\ Out.items["e1"].sample # Out.items["e2"].sample
    /\ data.input.metrics["e2"].mapq_counts[2][1] = 42

\* the experiments the PlotDataset of the render has data of, each as often
\* as it occurs
SeriesOf(c) ==
    IF c = Scatter
    THEN [i \in 1..Len(Out.data) |-> Out.data[i].experimentID]
    ELSE SelectSeq(SortedKeys(data.input.metrics), LAMBDA e : e \in DOMAIN Out.data.series)

\* C25: whatever legendItemState is, the PlotDataset of each of the five
\* charts has exactly one series (one point, in the scatter plot) for each
\* experiment of the dataset, it is the one of the render under any other
\* state of legendItemState, and every experiment has its plot item, which
\* is 'hidden' if and only if the entry of its sample is false.
C25_FilteredWhenDrawn ==
    \A c \in Charts :
        Drawn(c) =>
            /\ Len(SeriesOf(c)) = Cardinality(DOMAIN data.input.metrics)
            /\ {SeriesOf(c)[i] : i \in 1..Len(SeriesOf(c))} = DOMAIN data.input.metrics
            /\ \A lis \in Selections(data.input.metrics) : Under(c, lis).data = Out.data
            /\ DOMAIN Out.items = DOMAIN data.input.metrics
            /\ \A e \in DOMAIN Out.items :
                   Out.items[e].hidden <=>
                       ~Truthy(MapGet(data.input.selection, SampleOf(data.input.metrics[e])))

\* no sample is selected, and the scatter plot has a dot for each experiment
C25_Witness ==
    /\ Drawn(Scatter)
    /\ Len(Out.data) = 3
    /\ \A e \in DOMAIN Out.items : Out.items[e].hidden
    /\ \A i \in 1..Len(data.input.selection) : ~data.input.selection[i].value

(***************************************************************************)
(* The viewports.                                                          *)
(***************************************************************************)
\* C26: in every reachable state the zoom scale of the scatter plot is in
\* [1, 40] and the zoom scale of every line plot is in [1, 2], whatever zoom,
\* pan and reset gestures came before.
C26_ScaleWithinExtent ==
    \A c \in Charts : dom[c].zoom.k >= MinScale /\ dom[c].zoom.k <= MaxScale(c)

\* both plots at the upper end of their extent after a gesture that asked for
\* more, and moved away from the origin
C26_Witness ==
    /\ turn.op \in {"zoom", "pan"}
    /\ dom[Scatter].zoom.k = ScatterMaxScale
    /\ dom[FragLen].zoom.k = LineMaxScale
    /\ dom[Scatter].zoom.x # 0
    /\ dom[FragLen].zoom.x # 0

\* the steps of the viewports
ViewSteps == {"zoom", "pan", "reset", "resetEnd"}

\* C27: a zoom, a pan, a reset or the end of its transition on one chart
\* changes the transform and the drawing of that chart only; every other
\* chart keeps its transform, its plot items and its detail.
C27_ViewportsIndependent ==
    [][turn'.op \in ViewSteps => \E c \in Charts : \A x \in Charts \ {c} : dom'[x] = dom[x]]_vars

\* the scatter plot was reset while the fragment length plot stays zoomed and
\* dragged
C27_Witness ==
    /\ turn.op = "reset"
    /\ dom[Scatter].zoom.resetting
    /\ dom[FragLen].zoom = [k |-> LineMaxScale, x |-> 1, resetting |-> FALSE]

\* the 'hidden' classes of the plot items and the 'targetHidden' classes of
\* the legend items of every chart
HiddenMarks ==
    [c \in Charts |->
        [items |-> [e \in DOMAIN dom[c].items |-> dom[c].items[e].hidden],
         legend |-> dom[c].legend]]

\* C28: a click on Reset of a chart, whatever its transform and whatever is
\* hovered, puts the help text in the detail panel of the chart and starts
\* the transition of its transform; when the transition ends the transform
\* is the identity.  Neither step changes legendItemState, a hidden mark or
\* another chart.
C28_ResetRestores ==
    [][/\ turn'.op = "reset" =>
            /\ \E c \in Charts :
                /\ dom'[c] = [dom[c] EXCEPT !.detail = Help, !.zoom.resetting = TRUE]
                /\ \A x \in Charts \ {c} : dom'[x] = dom[x]
            /\ legendItemState' = legendItemState
            /\ HiddenMarks' = HiddenMarks
       /\ turn'.op = "resetEnd" =>
            /\ \E c \in Charts :
                /\ dom[c].zoom.resetting
                /\ dom'[c] = [dom[c] EXCEPT !.zoom = ZoomIdentity]
                /\ \A x \in Charts \ {c} : dom'[x] = dom[x]
            /\ legendItemState' = legendItemState
            /\ HiddenMarks' = HiddenMarks]_vars

\* Reset was clicked on the scatter plot, zoomed to the end of its extent and
\* dragged, with a dot highlighted by the pointer and a sample hidden on the
\* page: the detail panel shows the help text and the highlight stays
C28_Witness ==
    /\ turn.op = "reset"
    /\ dom[Scatter].zoom = [k |-> ScatterMaxScale, x |-> 1, resetting |-> TRUE]
    /\ dom[Scatter].detail = Help
    /\ \E e \in DOMAIN dom[Scatter].items : dom[Scatter].items[e].highlight
    /\ \E e \in DOMAIN dom[FragLen].items : dom[FragLen].items[e].hidden

\* the charts the turn that ran last has rendered
Rendered == {turn.events[i].arg : i \in {j \in 1..Len(turn.events) : turn.events[j].ev = "transform"}}

\* chart c shows a trace of the pointer: an item with 'highlight' or
\* 'unhighlight', or a detail panel without the help text
Hovered(c) ==
    \/ dom[c].detail # Help
    \/ \E e \in DOMAIN dom[c].items : dom[c].items[e].highlight \/ dom[c].items[e].unhighlight

\* C29: right after a render of a chart (a change of one of its options, or
\* the renders of a resize or of the page load) no plot item of the chart
\* has 'highlight' or 'unhighlight' and its detail panel shows the help
\* text, whatever was hovered before.
C29_HoverEndsAtRender ==
    turn.op \in Renders => \A c \in Rendered : ~Hovered(c)

\* an option of the scatter plot changed while a sample was hovered: the
\* scatter plot is clean, the fragment length plot still has the marks
C29_Witness ==
    /\ turn.op = "change"
    /\ Rendered = {Scatter}
    /\ ~Hovered(Scatter)
    /\ dom[FragLen].detail # Help
    /\ \E e \in DOMAIN dom[FragLen].items : dom[FragLen].items[e].highlight

(***************************************************************************)
(* The dataset.                                                            *)
(***************************************************************************)
\* C30: once configure has set it, no turn of the page adds, removes or
\* changes a property of the metrics dataset or of the reference
\* distribution: not listExperiments, a render, populateTables, a hover or
\* a change of the selection.
C30_DatasetReadOnly ==
    [][turn'.op # "load" => configuration' = configuration]_vars

\* listExperiments has run: the experiments of the dataset have three
\* properties configure did not give them
C30_Witness ==
    /\ turn.op = "listExperiments"
    /\ Len(configuration.metrics) > 0
    /\ \A i \in 1..Len(configuration.metrics) : configuration.metrics[i].added = ListedFields

(***************************************************************************)
(* The identity of the samples and of the libraries.                       *)
(***************************************************************************)
\* the library of the series of experiment e in the PlotDataset of chart c
SeriesLibrary(c, e) ==
    IF c = Scatter
    THEN Out.data[CHOOSE i \in 1..Len(Out.data) : Out.data[i].experimentID = e].library
    ELSE Out.data.series[e].library

\* the sample of the series of experiment e in the PlotDataset of chart c
SeriesSample(c, e) ==
    IF c = Scatter
    THEN Out.data[CHOOSE i \in 1..Len(Out.data) : Out.data[i].experimentID = e].sample
    ELSE Out.data.series[e].sample

\* C31: in each of the five charts the sample of the series of an experiment
\* is the key initialize gave legendItemState for it, its name when it has
\* no library.sample; and the library of the series is the name of the
\* experiment when it has no library.library, never undefined.
C31_IdentitySubstituted ==
    \A c \in Charts :
        Drawn(c) =>
            \A e \in DOMAIN data.input.metrics :
                LET x == data.input.metrics[e]
                IN /\ SeriesSample(c, e) \in MapKeys(data.input.selection)
                   /\ x.sample = "" => SeriesSample(c, e) = x.name
                   /\ x.library = "" => SeriesLibrary(c, e) = x.name
                   /\ SeriesLibrary(c, e) # ""

\* the mapping quality plot of a dataset with an experiment without
\* library.library: the library of its series is undefined
C31_Witness ==
    /\ Drawn(Mapq)
    /\ data.input.metrics["e1"].library # ""
    /\ \E e \in DOMAIN data.input.metrics :
           /\ data.input.metrics[e].library = ""
           /\ SeriesLibrary(Mapq, e) = ""
           /\ SeriesSample(Mapq, e) = SampleOf(data.input.metrics[e])

(***************************************************************************)
(* The order of the experiments.                                           *)
(***************************************************************************)
\* the datasets with the entries of cfg, inserted in any order of the keys
Reordered(cfg) ==
    LET n == Len(cfg.metrics)
    IN {[cfg EXCEPT !.metrics = [i \in 1..n |-> cfg.metrics[f[i]]]] :
            f \in {g \in [1..n -> 1..n] : \A i, j \in 1..n : g[i] = g[j] => i = j}}

\* position of an experimentID in the lexicographic order
Rank(id) == CHOOSE i \in 1..Len(IdOrder) : IdOrder[i] = id

\* C32: every chart visits the experiments in the lexicographic order of
\* their ExperimentIDs, so its sequence of series and the libraries of its
\* samples are those of the render of the same entries inserted in any other
\* order of the keys.
C32_OrderOfExperiments ==
    \A c \in Charts :
        closures[c].subscribed =>
            /\ \A i, j \in 1..Len(closures[c].experimentIDs) :
                   i < j => Rank(closures[c].experimentIDs[i]) < Rank(closures[c].experimentIDs[j])
            /\ \A cfg \in Reordered(configuration) :
                   LET other == RenderClosure(c, cfg, closures[c])
                   IN /\ other.experimentIDs = closures[c].experimentIDs
                      /\ other.samples = closures[c].samples

\* the plots of a dataset whose keys were inserted in the order e2, e1, e3
C32_Witness ==
    /\ turn.op = "populatePlots"
    /\ Len(configuration.metrics) = 3
    /\ configuration.metrics[1].id = "e2"
    /\ \A c \in Charts : closures[c].experimentIDs = << "e1", "e2", "e3" >>
    /\ closures[Mapq].samples["A"] = << "e1", "e2" >>

(***************************************************************************)
(* The status message.                                                     *)
(***************************************************************************)
\* C33: while the page is populated, 'Creating plots...' is already the
\* status message when the turn that renders the plots starts, and
\* 'Creating metrics tables...' when the turn that populates the tables
\* starts: each message is set in a turn before the one of its stage.
C33_MessageBeforeStage ==
    [][/\ (turn'.op = "populatePlots" /\ loads' # loads) => status = CreatingPlots
       /\ turn'.op = "populateTables" => status = CreatingTables]_vars

\* the tables half of C33 alone
C33_TablesMessageBeforeTables ==
    [][turn'.op = "populateTables" => status = CreatingTables]_vars

\* the turn of the second timer has ended: the plots are rendered and the
\* message that announces them was set in this same turn
C33_Witness ==
    /\ turn.op = "populatePlots"
    /\ loads = << 3 >>
    /\ status = CreatingPlots
    /\ \A c \in Charts : closures[c].subscribed

(***************************************************************************)
(* The debounced resize.                                                   *)
(***************************************************************************)
\* C34: no resize is lost.  A resize event leaves the timer of the debounce
\* pending; a pending timer fires, and when it does an animation frame is
\* requested; a requested animation frame runs populatePlots.  So
\* populatePlots runs after every resize event, when timers and animation
\* frames get their turn.  And the debounce never has more than one timer
\* that is set and has neither fired nor been cleared.
C34_NoResizeLost ==
    /\ [](\A i \in 1..Len(debouncers) : debouncers[i].timers <= 1)
    /\ [](turn.op = "resize" => \A i \in 1..Len(debouncers) : debouncers[i].timeout >= 0)
    /\ \A i \in 1..MaxLoads :
           (i <= Len(debouncers) /\ debouncers[i].timeout >= 0)
               ~> (i <= Len(debouncers) /\ debouncers[i].timeout = -1)
    /\ [](turn.op = "deferred" => raf > 0)
    /\ (raf > 0) ~> (raf = 0 /\ turn.op = "populatePlots")

\* populatePlots has run 250 ms after the second resize event of a burst,
\* which found the timer of the first pending
C34_Witness ==
    /\ turn.op = "populatePlots"
    /\ Settled
    /\ quiet = BurstGap
    /\ raf = 0
    /\ debouncers[1].timeout = -1
    /\ debouncers[1].timers = 0

(***************************************************************************)
(* The highlight of a hovered sample.                                      *)
(***************************************************************************)
\* the sample the turn that ran last dispatched sampleInspect with, if any
InspectedSamples ==
    {turn.events[i].arg : i \in {j \in 1..Len(turn.events) : turn.events[j].ev = "sampleInspect"}}
        \ {Null}

\* C35: after sampleInspect for a sample S of the dataset, the plot items
\* with 'highlight' are exactly the items of S in every chart, whatever was
\* hovered before, an item of another sample included.
C35_SampleHighlightExact ==
    \A S \in InspectedSamples :
        S \in Samples(configuration) =>
            \A c \in Charts : \A e \in DOMAIN dom[c].items :
                dom[c].items[e].highlight <=> dom[c].items[e].sample = S

\* the legend item of sample A was entered right after the plot item of e3,
\* of sample B: e3 still has 'highlight'
C35_Witness ==
    /\ InspectedSamples = {"A"}
    /\ \A e \in DOMAIN dom[Scatter].items : dom[Scatter].items[e].highlight
    /\ \E e \in DOMAIN dom[Scatter].items : dom[Scatter].items[e].sample = "B"

(***************************************************************************)
(* The viewport of a chart that is rendered again.                         *)
(***************************************************************************)
\* C36: a render gives the chart a new svg and a new zoom behaviour: after
\* the turn the transform of every chart it rendered is the identity,
\* whatever it was, and every other chart has the transform and the drawing
\* it had; the change of an option renders one chart.
C36_RenderResetsViewport ==
    [][/\ turn'.op \in Renders =>
            \A c \in Charts :
                /\ c \in Rendered' => dom'[c].zoom = ZoomIdentity
                /\ c \notin Rendered' => dom'[c] = dom[c]
       /\ turn'.op = "change" => Cardinality(Rendered') = 1]_vars

\* an option of the scatter plot was changed: its transform is the identity
\* and the fragment length plot is still zoomed and dragged
C36_Witness ==
    /\ turn.op = "change"
    /\ Rendered = {Scatter}
    /\ dom[Scatter].zoom = ZoomIdentity
    /\ dom[FragLen].zoom = [k |-> LineMaxScale, x |-> 1, resetting |-> FALSE]

(***************************************************************************)
(* The extent of the y axis of the line plots.                             *)
(***************************************************************************)
LinePlots == {FragLen, Mapq, PeakReads, PeakTerr}

\* a y of chart c as a fraction: the two peak plots keep whole numbers
AsRatio(c, y) == IF c \in {PeakReads, PeakTerr} THEN Ratio(y, 1) ELSE y

\* the y values of the points chart c draws: those of every series, and of
\* the reference curve in the fragment length plot
DrawnYs(c) ==
    {AsRatio(c, y) : y \in UNION {Ys(Out.data.series[e].line) : e \in DOMAIN Out.data.series}}
        \cup (IF c = FragLen THEN Ys(Out.data.reference_series) ELSE {})

\* C37: in the PlotDataset of every line plot yMax is at least the y of
\* every point of every series, and of the reference curve in the fragment
\* length plot; it is the y of one of the points when a y is positive; and
\* the domain of the y scale is [0, yMax].
C37_YMaxCoversEveryPoint ==
    \A c \in LinePlots :
        Drawn(c) =>
            LET yMax == AsRatio(c, Out.data.yMax)
            IN /\ \A y \in DrawnYs(c) : ~RatioLess(yMax, y)
               /\ (\E y \in DrawnYs(c) : RatioLess(Ratio(0, 1), y)) =>
                      \E y \in DrawnYs(c) : RatioEq(y, yMax)
               /\ Out.yDomain = << 0, Out.data.yMax >>

\* a fragment length plot whose highest point is on the reference curve
C37_Witness ==
    /\ Drawn(FragLen)
    /\ \E y \in Ys(Out.data.reference_series) : RatioEq(y, Out.data.yMax)
    /\ \A e \in DOMAIN Out.data.series :
           \A y \in Ys(Out.data.series[e].line) : RatioLess(y, Out.data.yMax)

(***************************************************************************)
(* The reference curve.                                                    *)
(***************************************************************************)
\* the class 'hidden' of the reference curve of every chart that has one
ReferenceCurves == [c \in Charts |-> dom[c].reference]

\* C38: only the reference toggle and a render change the class of the
\* reference curve: not a click on a legend item, show all, hide all or a
\* hover.  The reference toggle changes no entry of legendItemState and no
\* plot item or legend item, and calls no legendChange.  After a render of
\* the fragment length plot the reference curve is hidden if and only if
\* the reference toggle is not checked.
C38_ReferenceFollowsToggle ==
    [][/\ turn'.op \notin (Renders \cup {"referenceToggle"}) => ReferenceCurves' = ReferenceCurves
       /\ turn'.op = "referenceToggle" =>
            /\ legendItemState' = legendItemState
            /\ Count(turn'.events, "legendChange") = 0
            /\ \A c \in Charts : dom'[c].items = dom[c].items /\ dom'[c].legend = dom[c].legend
            /\ dom'[FragLen].reference # "none" =>
                   (dom'[FragLen].reference = "hidden" <=> ~referenceToggle')
       /\ (turn'.op \in Renders /\ FragLen \in Rendered' /\ dom'[FragLen].reference # "none") =>
            (dom'[FragLen].reference = "hidden" <=> ~referenceToggle')]_vars

\* the fragment length plot was rendered again with the toggle unchecked,
\* every sample selected and a plot item hovered before the render
C38_Witness ==
    /\ turn.op = "change"
    /\ Rendered = {FragLen}
    /\ ~referenceToggle
    /\ dom[FragLen].reference = "hidden"
    /\ \A s \in MapKeys(legendItemState) : Selected(s)
    /\ \E e \in DOMAIN dom[Scatter].items : dom[Scatter].items[e].highlight

====
